---- MODULE Spec2Model ----
(***************************************************************************)
(* A model of two subsystems of OOPS:                                      *)
(*   - the global Path registry of oops/path/baseclass.py                  *)
(*     (register / unregister / reregister / connect_to), and              *)
(*   - the event and backplane caches of oops_/backplane.py.               *)
(* Registry keys are modelled as tuples: a bare name "A" is <<"A">>, the   *)
(* secondary key is <<path, origin>> and the tertiary key is               *)
(* <<path, origin, frame>>.  Python objects are heap cells; an object's    *)
(* identity is its index in the heap.                                      *)
(***************************************************************************)
EXTENDS Integers, Sequences, FiniteSets, TLC

VARIABLES REGISTRY, nodes, ancestry, regLast, regOps, regShortcutUsed

regVars == <<REGISTRY, nodes, ancestry, regLast, regOps, regShortcutUsed>>

VARIABLES surface_events, surface_events_w_derivs, path_events,
          gridless_events, backplanes, arrFilled, solveLog, arrays,
          bpLast, bpOps

bpVars == <<surface_events, surface_events_w_derivs, path_events,
            gridless_events, backplanes, arrFilled, solveLog, arrays,
            bpLast, bpOps>>

\* The last call of Path.connect / Path.common_ancestry and what it returned.
VARIABLES connLast

connVars == <<connLast>>

\* The event a client holds, and the last photon solve made against it.
VARIABLES solveEvent, solveLast

solveVars == <<solveEvent, solveLast>>

\* A there-and-back test of ReshapedCadence._reshape_tstep: the shapes and
\* the time step given, the time step in the new shape, and the time step
\* converted back.
VARIABLES reshapeTest, arg1, arg2

reshapeVars == <<reshapeTest, arg1, arg2>>

\* The validity masks of the observation's samples: which samples are invalid
\* in the observer event, which lines of sight miss each body, and the
\* values the distance arrays hold.
VARIABLES sampleMasks

vars == <<regVars, bpVars, connVars, solveVars, reshapeVars, sampleMasks>>

(***************************************************************************)
(* Bounds                                                                  *)
(***************************************************************************)
MaxRegOps == 4
MaxBpOps == 3
\* Operations of a connector run, and how many of them (the first ones) may
\* be unregistrations.
MaxConnOps == 3
MaxUnregOps == 1
\* Operations of a photon-solver run.
MaxSolveOps == 3

MaxMaskOps == 2

NoShortcut == "-"
Shortcuts == {"S"}

(***************************************************************************)
(* Path objects.  parts lists the component paths of a composite path.     *)
(***************************************************************************)
PathObj(kind, pid, oid, fid, parts) ==
    [kind |-> kind, path_id |-> pid, origin_id |-> oid, frame_id |-> fid,
     parts |-> parts]

Waypoint(pid, fid) == PathObj("Waypoint", pid, pid, fid, <<>>)

Linked(st, paths) ==
    PathObj("Linked", st.nodes[paths[1]].path_id,
            st.nodes[paths[Len(paths)]].origin_id,
            st.nodes[paths[Len(paths)]].frame_id, paths)

Relative(st, path, origin) ==
    PathObj("Relative", st.nodes[path].path_id, st.nodes[origin].path_id,
            st.nodes[origin].frame_id, <<path, origin>>)

Reversed_unswapped(st, path) ==
    PathObj("Reversed", st.nodes[path].path_id, st.nodes[path].origin_id,
            st.nodes[path].frame_id, <<path>>)

Reversed(st, path) ==
    PathObj("Reversed", st.nodes[path].origin_id, st.nodes[path].path_id,
            st.nodes[path].frame_id, <<path>>)

Rotated(st, path, fid) ==
    PathObj("Rotated", st.nodes[path].path_id, st.nodes[path].origin_id,
            fid, <<path>>)

\* The Path objects the client has constructed.  Object 1 is registry.SSB.
SSB == 1
UserPaths ==
    << Waypoint("SSB", "J2000"),
       PathObj("Base", "A", "SSB", "J2000", <<>>),
       PathObj("Base", "B", "A", "F1", <<>>),
       PathObj("Base", "A", "B", "J2000", <<>>) >>

NumUser == Len(UserPaths)

(***************************************************************************)
(* Dictionary helpers                                                      *)
(***************************************************************************)
Put(d, k, v) == [x \in DOMAIN d \cup {k} |-> IF x = k THEN v ELSE d[x]]

PutNew(d, k, v) == IF k \in DOMAIN d THEN d ELSE Put(d, k, v)

Del(d, ks) == [x \in DOMAIN d \ ks |-> d[x]]

Alloc(st, obj) ==
    [st EXCEPT !.nodes = Append(@, obj), !.ancestry = Append(@, <<>>)]

OK(st, val) == [st |-> st, err |-> "none", val |-> val]
Raise(st, e) == [st |-> st, err |-> e, val |-> 0]

\* connLast when the last operation was not a connection.  In a connLast
\* record, again says that the call before it was the same call and
\* returned, swapped that it was the call with target and origin exchanged,
\* and events holds the events of the returned node at the times
\* the client evaluates it.
NoConnect == [op |-> "none"]

NoSolve == [op |-> "none"]

\* No test of _reshape_tstep made, and no time step computed.
NoTest == [oldshape |-> <<>>]

NoTstep == [cls |-> "None"]

NoMasks == [single |-> TRUE]

\* None, as the value of a variable that holds an event.
NoEvent == [err |-> "None"]

\* A local variable: v is evaluated once and Body is given its value.
Bind(v, Body(_)) == CHOOSE y \in {Body(x) : x \in {v}} : TRUE

(***************************************************************************)
(* Path.initialize_registry                                                *)
(***************************************************************************)
initialize_registry(st) ==
    [st EXCEPT !.reg = [k \in {<<"SSB">>, <<"SSB", "SSB">>,
                               <<"SSB", "SSB", "J2000">>} |-> SSB]]

(***************************************************************************)
(* registry.as_primary: the primary definition registered under the id of  *)
(* a path (or under a name).  0 stands for "no such key".                  *)
(***************************************************************************)
as_primary(st, name) ==
    IF <<name>> \in DOMAIN st.reg THEN st.reg[<<name>>] ELSE 0

(***************************************************************************)
(* Path.common_ancestry: the first i (outer loop) and, for it, the first j *)
(* (inner loop) at which the two ancestry lists name the same path.        *)
(***************************************************************************)
FirstMatch(st, a1, a2) ==
    LET hits == {ij \in (1..Len(a1)) \X (1..Len(a2)) :
                    st.nodes[a1[ij[1]]].path_id = st.nodes[a2[ij[2]]].path_id}
    IN  IF hits = {} THEN <<0, 0>>
        ELSE CHOOSE ij \in hits :
                \A h \in hits : ij[1] < h[1] \/ (ij[1] = h[1] /\ ij[2] <= h[2])

common_ancestry(st, path1, path2) ==
    LET a1 == st.ancestry[path1]
        a2 == st.ancestry[path2]
        ij == FirstMatch(st, a1, a2)
    IN  IF ij = <<0, 0>> THEN <<a1, a2>>
        ELSE <<SubSeq(a1, 1, ij[1]), SubSeq(a2, 1, ij[2])>>

RECURSIVE register(_, _, _)
RECURSIVE connect_to(_, _, _, _)

(***************************************************************************)
(* connect_to, lines 561-585: the path from one end point down to the      *)
(* common ancestor.  val = 0 is None.                                      *)
(***************************************************************************)
side_path(st, endpoint, anc) ==
    IF anc = <<>> THEN OK(st, 0)
    ELSE IF Len(anc) = 1 THEN OK(st, endpoint)
    ELSE LET key == <<st.nodes[endpoint].path_id,
                      st.nodes[anc[Len(anc)]].origin_id>>
         IN  IF key \in DOMAIN st.reg THEN OK(st, st.reg[key])
             ELSE Bind(Alloc(st, Linked(st, anc)), LAMBDA s1 :
                  Bind(register(s1, Len(s1.nodes), NoShortcut), LAMBDA r :
                       IF r.err # "none" THEN r ELSE OK(r.st, Len(s1.nodes))))

(***************************************************************************)
(* connect_to, lines 587-606: combine the two sides, register the result   *)
(* and rotate it into the requested frame.                                 *)
(***************************************************************************)
new_path(st, obj) == OK(Alloc(st, obj), Len(st.nodes) + 1)

combine(st, self, tp, op, frame_id) ==
    Bind(IF op = 0
         THEN IF tp = 0
              THEN new_path(st, Waypoint(st.nodes[self].path_id, frame_id))
              ELSE OK(st, tp)
         ELSE IF tp = 0
              THEN new_path(st, Reversed(st, op))
              ELSE IF st.nodes[tp].origin_id # st.nodes[op].origin_id
                   THEN Raise(st, "AssertionError")
                   ELSE new_path(st, Relative(st, tp, op)),
         LAMBDA made :
    IF made.err # "none" THEN made
    ELSE
    Bind(register(made.st, made.val, NoShortcut), LAMBDA r :
    IF r.err # "none" THEN r
    ELSE IF r.st.nodes[made.val].frame_id = frame_id THEN OK(r.st, made.val)
    ELSE
    Bind(new_path(r.st, Rotated(r.st, made.val, frame_id)), LAMBDA rot :
    Bind(register(rot.st, rot.val, NoShortcut), LAMBDA r2 :
    IF r2.err # "none" THEN r2 ELSE OK(r2.st, rot.val)))))

(***************************************************************************)
(* Path.connect_to                                                         *)
(***************************************************************************)
connect_to(st, self, origin_id, frame_id) ==
    LET target == as_primary(st, st.nodes[self].path_id)
        origin == as_primary(st, origin_id)
    IN  IF target = 0 \/ origin = 0 THEN Raise(st, "KeyError")
        ELSE IF st.ancestry[target] = <<>> \/ st.ancestry[origin] = <<>>
        THEN Raise(st, "AttributeError")
        ELSE
        Bind(common_ancestry(st, target, origin), LAMBDA ca :
        LET target_ancestry == SubSeq(ca[1], 1, Len(ca[1]) - 1)
            origin_ancestry == SubSeq(ca[2], 1, Len(ca[2]) - 1)
        IN  Bind(side_path(st, target, target_ancestry), LAMBDA rt :
            IF rt.err # "none" THEN rt
            ELSE
            Bind(side_path(rt.st, origin, origin_ancestry), LAMBDA ro :
            IF ro.err # "none" THEN ro
            ELSE combine(ro.st, self, rt.val, ro.val, frame_id))))

(***************************************************************************)
(* Path.register, line 160: the ancestry of a new primary definition.      *)
(***************************************************************************)
new_ancestry_without_self(st, self, origin) == st.ancestry[origin]

new_ancestry(st, self, origin) == <<self>> \o st.ancestry[origin]

(***************************************************************************)
(* Path.register, lines 153-176: the primary definition of a new id.  The  *)
(* registry entry is written before the ancestry is read, and every error  *)
(* of the SSB connection is swallowed by the bare except.                  *)
(***************************************************************************)
register_primary(st, self, origin) ==
    LET me == st.nodes[self]
    IN  Bind([st EXCEPT !.reg = Put(@, <<me.path_id>>, self)], LAMBDA s1 :
        IF s1.ancestry[origin] = <<>> THEN Raise(s1, "AttributeError")
        ELSE
        Bind([s1 EXCEPT !.ancestry[self] = new_ancestry(s1, self, origin)],
             LAMBDA s2 :
        Bind(new_path(s2, Waypoint(me.path_id, me.frame_id)), LAMBDA wp :
        Bind([wp.st EXCEPT !.reg =
                 Put(Put(@, <<me.path_id, me.path_id>>, wp.val),
                     <<me.path_id, me.path_id, me.frame_id>>, wp.val)],
             LAMBDA s4 :
        IF me.origin_id # "SSB" \/ me.frame_id # "J2000"
        THEN Bind(connect_to(s4, self, "SSB", "J2000"), LAMBDA r :
             IF r.err # "none" THEN OK(r.st, 0)
             ELSE LET pid == r.st.nodes[r.val].path_id
                  IN  OK([r.st EXCEPT !.reg =
                            PutNew(Put(@, <<pid, "SSB", "J2000">>, r.val),
                                   <<pid, "SSB">>, r.val)], 0))
        ELSE OK(s4, 0)))))

(***************************************************************************)
(* Path.register, lines 150-151: the origin must be registered.  0 stands  *)
(* for the KeyError of a missing key.                                      *)
(***************************************************************************)
origin_lookup_default(st, self) ==
    IF <<st.nodes[self].origin_id>> \in DOMAIN st.reg
    THEN st.reg[<<st.nodes[self].origin_id>>] ELSE SSB

origin_lookup(st, self) ==
    IF <<st.nodes[self].origin_id>> \in DOMAIN st.reg
    THEN st.reg[<<st.nodes[self].origin_id>>] ELSE 0

(***************************************************************************)
(* Path.register                                                           *)
(***************************************************************************)
register(st0, self, shortcut) ==
    Bind(IF DOMAIN st0.reg = {} THEN initialize_registry(st0) ELSE st0,
         LAMBDA st :
    LET me == st.nodes[self]
        k2 == <<me.path_id, me.origin_id>>
        k3 == <<me.path_id, me.origin_id, me.frame_id>>
    IN  IF shortcut # NoShortcut
        THEN OK([st EXCEPT !.reg = Put(Put(@, <<shortcut>>, self), k3, self)], 0)
        ELSE
        Bind(origin_lookup(st, self), LAMBDA origin :
        IF origin = 0 THEN Raise(st, "KeyError")
        ELSE
        Bind(IF <<me.path_id>> \in DOMAIN st.reg THEN OK(st, 0)
             ELSE register_primary(st, self, origin), LAMBDA r :
        IF r.err # "none" THEN r
        ELSE OK([r.st EXCEPT !.reg = PutNew(PutNew(@, k2, self), k3, self)],
                0))))

(***************************************************************************)
(* Path.unregister.  The loop visits a snapshot of the keys in the         *)
(* dictionary's order, which the program does not control.  A tuple key    *)
(* whose first and second component both equal path_id is deleted twice,   *)
(* and the second del raises KeyError: the keys visited before it are      *)
(* gone, the others stay.                                                  *)
(***************************************************************************)
Matching_by_path(st, path_id) ==
    {k \in DOMAIN st.reg : \/ st.nodes[st.reg[k]].path_id = path_id
                           \/ st.nodes[st.reg[k]].origin_id = path_id}

Matching(st, path_id) ==
    {k \in DOMAIN st.reg :
        \/ Len(k) = 1 /\ k[1] = path_id
        \/ Len(k) >= 2 /\ (k[1] = path_id \/ k[2] = path_id)}

Doubled(st, path_id) ==
    {k \in DOMAIN st.reg : Len(k) >= 2 /\ k[1] = path_id /\ k[2] = path_id}

unregister(st, self) ==
    Bind(Matching(st, st.nodes[self].path_id), LAMBDA m :
    Bind(Doubled(st, st.nodes[self].path_id), LAMBDA d :
    IF d = {} THEN {OK([st EXCEPT !.reg = Del(@, m)], 0)}
    ELSE {Raise([st EXCEPT !.reg = Del(@, before \cup {k})], "KeyError") :
             <<k, before>> \in d \X SUBSET (m \ d)}))

(***************************************************************************)
(* Path.reregister                                                         *)
(***************************************************************************)
reregister(st, self) ==
    {IF u.err # "none" THEN u ELSE register(u.st, self, NoShortcut) :
        u \in unregister(st, self)}

(***************************************************************************)
(* Path.connect.  target, origin and frame are given by id.  The second    *)
(* try block encloses result.register(), so a KeyError raised by the       *)
(* registration of the Rotated node falls through to connect_to.           *)
(***************************************************************************)
connect_by_ancestry(st, target_id, origin_id, frame_id) ==
    IF <<target_id>> \notin DOMAIN st.reg THEN Raise(st, "KeyError")
    ELSE connect_to(st, st.reg[<<target_id>>], origin_id, frame_id)

connect_uncached(st, target_id, origin_id, frame_id) ==
    connect_by_ancestry(st, target_id, origin_id, frame_id)

connect(st, target_id, origin_id, frame_id) ==
    IF <<target_id, origin_id, frame_id>> \in DOMAIN st.reg
    THEN OK(st, st.reg[<<target_id, origin_id, frame_id>>])
    ELSE IF <<target_id, origin_id>> \in DOMAIN st.reg
    THEN Bind(new_path(st, Rotated(st, st.reg[<<target_id, origin_id>>],
                                   frame_id)), LAMBDA rot :
         Bind(register(rot.st, rot.val, NoShortcut), LAMBDA r :
         IF r.err = "none" THEN OK(r.st, rot.val)
         ELSE IF r.err = "KeyError"
         THEN connect_by_ancestry(r.st, target_id, origin_id, frame_id)
         ELSE r))
    ELSE connect_by_ancestry(st, target_id, origin_id, frame_id)

(***************************************************************************)
(* Events of paths.  Vectors have two integer components.  A frame is      *)
(* given by the number of quarter turns of its axes against J2000; the     *)
(* coordinates of a vector in a frame turned once more are <<y, -x>>.      *)
(***************************************************************************)
VAdd(a, b) == <<a[1] + b[1], a[2] + b[2]>>

VSub(a, b) == <<a[1] - b[1], a[2] - b[2]>>

VNeg(a) == <<-a[1], -a[2]>>

VScale(k, a) == <<k * a[1], k * a[2]>>

VZERO == <<0, 0>>

Empty == <<>>

Turn(v, q) ==
    CASE q % 4 = 0 -> v
      [] q % 4 = 1 -> <<v[2], -v[1]>>
      [] q % 4 = 2 -> <<-v[1], -v[2]>>
      [] q % 4 = 3 -> <<-v[2], v[1]>>

\* A photon direction field is empty until a solve has filled it.
TurnField(v, q) == IF v = Empty THEN Empty ELSE Turn(v, q)

Turns(frame_id) == IF frame_id = "F1" THEN 1 ELSE 0

\* frame_registry.connect(target, reference): the frame that takes
\* coordinates in reference to coordinates in target.
frame_connect(target, reference) ==
    [frame_id |-> target, reference_id |-> reference,
     turns |-> (Turns(target) - Turns(reference)) % 4]

PathEvent(time, pos, vel, origin_id, frame_id) ==
    [err |-> "none", time |-> time, pos |-> pos, vel |-> vel,
     origin_id |-> origin_id, frame_id |-> frame_id,
     arr |-> Empty, dep |-> Empty]

Failed(e) == [err |-> e]

\* Event.rotate_by_frame and Event.unrotate_by_frame
rotate_by_frame(event, frame) ==
    IF event.err # "none" THEN event
    ELSE [event EXCEPT !.pos = Turn(@, frame.turns),
                       !.vel = Turn(@, frame.turns),
                       !.arr = TurnField(@, frame.turns),
                       !.dep = TurnField(@, frame.turns),
                       !.frame_id = frame.frame_id]

unrotate_by_frame(event, frame) ==
    IF event.err # "none" THEN event
    ELSE [event EXCEPT !.pos = Turn(@, 4 - frame.turns),
                       !.vel = Turn(@, 4 - frame.turns),
                       !.arr = TurnField(@, 4 - frame.turns),
                       !.dep = TurnField(@, 4 - frame.turns),
                       !.frame_id = frame.reference_id]

\* Event.null_event
null_event(time, path_id, frame_id) ==
    PathEvent(time, VZERO, VZERO, path_id, frame_id)

(***************************************************************************)
(* Photon solver (Path._solve_photon).  Floating-point numbers are         *)
(* modelled by integers: every length and every time a client gives is a   *)
(* multiple of Unit, which is chosen so that all quotients the solver      *)
(* forms in up to three Newton steps are whole numbers.  A quotient that   *)
(* would not be whole is reported as "inexact" and never occurs.  All      *)
(* motion is along one axis of J2000, so that the norm of a vector is the  *)
(* absolute value of its one non-zero component.                           *)
(***************************************************************************)
\* constants.C, the speed of light, in length units per time unit.
C == 3

Abs(x) == IF x < 0 THEN -x ELSE x

Sgn(x) == IF x < 0 THEN -1 ELSE IF x > 0 THEN 1 ELSE 0

RECURSIVE Gcd(_, _)
Gcd(a, b) == IF b = 0 THEN a ELSE Gcd(b, a % b)

RECURSIVE LcmUpTo(_)
LcmUpTo(n) ==
    IF n <= 1 THEN 1
    ELSE (n * LcmUpTo(n - 1)) \div Gcd(n, LcmUpTo(n - 1))

\* The Newton step divides by |delta_vel| - sign * C, a whole number between
\* 1 and 2 * C in absolute value, at most MaxIters times, and the initial
\* guess divides by C.
MaxIters == 3

Unit == C * LcmUpTo(2 * C) * LcmUpTo(2 * C) * LcmUpTo(2 * C)


\* The motion the client gave each of its paths: position at the epoch 0
\* and velocity, in the path's own frame.  The second definition of A
\* (relative to C) describes the same motion as the chain A, B, C.
motion(me) ==
    CASE me.path_id = "A" /\ me.origin_id = "SSB" ->
             [pos |-> <<1, 0>>, vel |-> <<0, 1>>]
      [] me.path_id = "B" -> [pos |-> <<0, 2>>, vel |-> <<1, 0>>]
      [] me.path_id = "C" -> [pos |-> <<1, 1>>, vel |-> VZERO]
      [] me.path_id = "A" /\ me.origin_id = "C" ->
             [pos |-> <<1, -1>>, vel |-> <<0, -1>>]
      [] me.path_id = "D" -> [pos |-> <<2, 0>>, vel |-> <<0, -1>>]
      [] me.path_id = "P" -> [pos |-> VZERO, vel |-> VZERO]
      [] me.path_id = "Q" -> [pos |-> <<2 * Unit, 0>>, vel |-> <<2, 0>>]
      [] me.path_id = "R" -> [pos |-> <<0, 3 * Unit>>, vel |-> <<0, 1>>]
      [] OTHER -> [pos |-> VZERO, vel |-> VZERO]

\* LinearPath.event_at_time (FixedPath.event_at_time when vel is zero)
linear_event_at_time(me, time) ==
    PathEvent(time, VAdd(motion(me).pos, VScale(time, motion(me).vel)),
              motion(me).vel, me.origin_id, me.frame_id)

\* Reversed.event_at_time, lines 769-778
reversed_keeping_vel(event) ==
    IF event.err # "none" THEN event
    ELSE [event EXCEPT !.pos = VNeg(@), !.arr = Empty, !.dep = Empty]

reversed(event) ==
    IF event.err # "none" THEN event
    ELSE [event EXCEPT !.pos = VNeg(@), !.vel = VNeg(@),
                       !.arr = Empty, !.dep = Empty]

\* The arithmetic of Path.add_to_event and Path.subtract_from_event, once
\* the offset of the path is known.
added(st, self, event, offset) ==
    IF event.err # "none" THEN event
    ELSE IF offset.err # "none" THEN offset
    ELSE IF \/ st.nodes[self].path_id # event.origin_id
            \/ st.nodes[self].frame_id # event.frame_id
    THEN Failed("AssertionError")
    ELSE [event EXCEPT !.pos = VAdd(@, offset.pos),
                       !.vel = VAdd(@, offset.vel),
                       !.origin_id = st.nodes[self].origin_id]

subtracted(st, self, event, offset) ==
    IF event.err # "none" THEN event
    ELSE IF offset.err # "none" THEN offset
    ELSE IF \/ st.nodes[self].origin_id # event.origin_id
            \/ st.nodes[self].frame_id # event.frame_id
    THEN Failed("AssertionError")
    ELSE [event EXCEPT !.pos = VSub(@, offset.pos),
                       !.vel = VSub(@, offset.vel),
                       !.origin_id = st.nodes[self].path_id]

RECURSIVE event_at_time(_, _, _)
RECURSIVE linked_event(_, _, _, _)

\* Path.add_to_event and Path.subtract_from_event
add_to_event(st, self, event) ==
    IF event.err # "none" THEN event
    ELSE Bind(event_at_time(st, self, event.time), LAMBDA offset :
         added(st, self, event, offset))

subtract_from_event(st, self, event) ==
    IF event.err # "none" THEN event
    ELSE Bind(event_at_time(st, self, event.time), LAMBDA offset :
         subtracted(st, self, event, offset))

\* Linked.event_at_time, lines 702-704: the loop from step i on.
linked_event(st, paths, i, event) ==
    IF i >= Len(paths) THEN event
    ELSE Bind(unrotate_by_frame(event,
                  frame_connect(st.nodes[paths[i]].frame_id,
                                st.nodes[paths[i + 1]].frame_id)),
              LAMBDA e1 :
         Bind(add_to_event(st, paths[i + 1], e1), LAMBDA e2 :
         linked_event(st, paths, i + 1, e2)))

\* event_at_time of LinearPath and of the subclasses Linked, Relative,
\* Reversed, Rotated and Waypoint.
event_at_time(st, self, time) ==
    LET me == st.nodes[self]
    IN  CASE me.kind = "Base" -> linear_event_at_time(me, time)
          [] me.kind = "Waypoint" ->
                null_event(time, me.path_id, me.frame_id)
          [] me.kind = "Linked" ->
                Bind(event_at_time(st, me.parts[1], time), LAMBDA e :
                linked_event(st, me.parts, 1, e))
          [] me.kind = "Relative" ->
                Bind(event_at_time(st, me.parts[1], time), LAMBDA e :
                subtract_from_event(st, me.parts[2],
                    unrotate_by_frame(e,
                        frame_connect(st.nodes[me.parts[1]].frame_id,
                                      st.nodes[me.parts[2]].frame_id))))
          [] me.kind = "Reversed" ->
                reversed(event_at_time(st, me.parts[1], time))
          [] me.kind = "Rotated" ->
                rotate_by_frame(event_at_time(st, me.parts[1], time),
                    frame_connect(me.frame_id,
                                  st.nodes[me.parts[1]].frame_id))

\* The times at which a client evaluates a node.
Times == {0, 2}

(***************************************************************************)
(* Path._solve_photon and the methods of Event it calls                    *)
(***************************************************************************)
Divides(a, b) == b # 0 /\ Abs(a) % Abs(b) = 0

Quot(a, b) == Sgn(a) * Sgn(b) * (Abs(a) \div Abs(b))

\* Vector3.norm and Vector3.proj, for vectors along an axis.
AlongAxis(v) == v[1] = 0 \/ v[2] = 0

norm(v) == Abs(v[1]) + Abs(v[2])

proj(v, w) == IF w[2] = 0 THEN <<v[1], 0>> ELSE <<0, v[2]>>

\* An event object a client holds: the event and its cached SSB copy.
EventObj(ev) == [ev |-> ev, ssb |-> NoEvent]

\* Event.wrt_frame, Event.wrt_path, Event.wrt and Event.wrt_event
wrt_frame(ev, frame_id) ==
    IF frame_id = ev.frame_id THEN ev
    ELSE rotate_by_frame(ev, frame_connect(frame_id, ev.frame_id))

wrt_path(st, ev, path_id) ==
    IF path_id = ev.origin_id THEN OK(st, ev)
    ELSE Bind(connect(st, path_id, ev.origin_id, ev.frame_id), LAMBDA c :
         IF c.err # "none" THEN c
         ELSE Bind(subtract_from_event(c.st, c.val, ev), LAMBDA e :
              IF e.err # "none" THEN Raise(c.st, e.err) ELSE OK(c.st, e)))

wrt(st, ev, path_id, frame_id) ==
    Bind(wrt_path(st, ev, path_id), LAMBDA r :
    IF r.err # "none" THEN r ELSE OK(r.st, wrt_frame(r.val, frame_id)))

wrt_event(st, ev, event) == wrt(st, ev, event.origin_id, event.frame_id)

\* Event.wrt_ssb: the event relative to SSB in J2000, kept in event.ssb.
\* val is the event object with its ssb attribute filled.
wrt_ssb(st, event) ==
    IF event.ssb # NoEvent THEN OK(st, event)
    ELSE Bind(wrt(st, event.ev, "SSB", "J2000"), LAMBDA r :
         IF r.err # "none" THEN r
         ELSE OK(r.st, [event EXCEPT !.ssb = r.val]))

\* _solve_photon, lines 442-448: one Newton update of lt.
newton_update(path_event, event_wrt_ssb, signed_c, lt) ==
    LET delta_pos == VSub(path_event.pos, event_wrt_ssb.pos)
        delta_vel == VSub(path_event.vel, event_wrt_ssb.vel)
        y == norm(delta_pos) - lt * signed_c
        d == norm(proj(delta_vel, delta_pos)) - signed_c
    IN  IF delta_pos = VZERO \/ d = 0 THEN [err |-> "nan", lt |-> lt]
        ELSE IF ~AlongAxis(delta_pos) \/ ~Divides(y, d)
        THEN [err |-> "inexact", lt |-> lt]
        ELSE [err |-> "none", lt |-> lt - Quot(y, d)]

\* The loop as it would be with a convergence check.
RECURSIVE newton_checked(_, _, _, _, _, _, _)
newton_checked(st, path_wrt_ssb, time, event_wrt_ssb, signed_c, lts, iters) ==
    IF iters = 0 THEN [err |-> "none", lts |-> lts]
    ELSE Bind(event_at_time(st, path_wrt_ssb, time + lts[Len(lts)]),
              LAMBDA path_event :
         IF path_event.err # "none"
         THEN [err |-> path_event.err, lts |-> lts]
         ELSE IF norm(VSub(path_event.pos, event_wrt_ssb.pos))
                    = lts[Len(lts)] * signed_c
         THEN [err |-> "none", lts |-> lts]
         ELSE Bind(newton_update(path_event, event_wrt_ssb, signed_c,
                                 lts[Len(lts)]), LAMBDA u :
              IF u.err # "none" THEN [err |-> u.err, lts |-> lts]
              ELSE newton_checked(st, path_wrt_ssb, time, event_wrt_ssb,
                                  signed_c, Append(lts, u.lt), iters - 1)))

\* _solve_photon, lines 440-448: the loop, with iters passes left.  lts is
\* the list of the values lt has taken so far.
RECURSIVE newton(_, _, _, _, _, _, _)
newton(st, path_wrt_ssb, time, event_wrt_ssb, signed_c, lts, iters) ==
    IF iters = 0 THEN [err |-> "none", lts |-> lts]
    ELSE Bind(event_at_time(st, path_wrt_ssb, time + lts[Len(lts)]),
              LAMBDA path_event :
         IF path_event.err # "none"
         THEN [err |-> path_event.err, lts |-> lts]
         ELSE Bind(newton_update(path_event, event_wrt_ssb, signed_c,
                                 lts[Len(lts)]), LAMBDA u :
              IF u.err # "none" THEN [err |-> u.err, lts |-> lts]
              ELSE newton(st, path_wrt_ssb, time, event_wrt_ssb, signed_c,
                          Append(lts, u.lt), iters - 1)))

\* _solve_photon, lines 428-431: the initial guess of the light time.
initial_lt(path_event, event_wrt_ssb, signed_c) ==
    LET delta_pos == VSub(path_event.pos, event_wrt_ssb.pos)
    IN  IF path_event.err # "none" THEN [err |-> path_event.err, lt |-> 0]
        ELSE IF ~AlongAxis(delta_pos) \/ ~Divides(norm(delta_pos), signed_c)
        THEN [err |-> "inexact", lt |-> 0]
        ELSE [err |-> "none", lt |-> Quot(norm(delta_pos), signed_c)]

\* _solve_photon, lines 458-475: the photon fields of the new event and of
\* the given one.  val is the pair of the two.
fill_both(sign, path_event_ssb, event) ==
    LET toward == VSub(event.ssb.pos, path_event_ssb.pos)
        ssb == [event.ssb EXCEPT !.arr = toward, !.dep = toward]
    IN  << [path_event_ssb EXCEPT !.dep = toward],
           [ev |-> [event.ev EXCEPT
                      !.arr = wrt_frame(ssb, event.ev.frame_id).arr,
                      !.dep = wrt_frame(ssb, event.ev.frame_id).dep],
            ssb |-> ssb] >>

fill_unit(sign, path_event_ssb, event) ==
    IF sign < 0
    THEN LET toward == VSub(event.ssb.pos, path_event_ssb.pos)
             dep == <<Sgn(toward[1]), Sgn(toward[2])>>
             ssb == [event.ssb EXCEPT !.arr = dep]
         IN  << [path_event_ssb EXCEPT !.dep = dep],
                [ev |-> [event.ev EXCEPT
                           !.arr = wrt_frame(ssb, event.ev.frame_id).arr],
                 ssb |-> ssb] >>
    ELSE LET away == VSub(path_event_ssb.pos, event.ssb.pos)
             arr == <<Sgn(away[1]), Sgn(away[2])>>
             ssb == [event.ssb EXCEPT !.dep = arr]
         IN  << [path_event_ssb EXCEPT !.arr = arr],
                [ev |-> [event.ev EXCEPT
                           !.dep = wrt_frame(ssb, event.ev.frame_id).dep],
                 ssb |-> ssb] >>

fill(sign, path_event_ssb, event) ==
    IF sign < 0
    THEN LET dep == VSub(event.ssb.pos, path_event_ssb.pos)
             ssb == [event.ssb EXCEPT !.arr = dep]
         IN  << [path_event_ssb EXCEPT !.dep = dep],
                [ev |-> [event.ev EXCEPT
                           !.arr = wrt_frame(ssb, event.ev.frame_id).arr],
                 ssb |-> ssb] >>
    ELSE LET arr == VSub(path_event_ssb.pos, event.ssb.pos)
             ssb == [event.ssb EXCEPT !.dep = arr]
         IN  << [path_event_ssb EXCEPT !.arr = arr],
                [ev |-> [event.ev EXCEPT
                           !.dep = wrt_frame(ssb, event.ev.frame_id).dep],
                 ssb |-> ssb] >>

\* _solve_photon, lines 477-486: the two events returned.  val holds them,
\* the given event as the solve leaves it, and the values lt has taken.
solved(st, self, event, path_event_ssb, lts) ==
    Bind(wrt(st, path_event_ssb, st.nodes[self].path_id,
             st.nodes[self].frame_id), LAMBDA a :
    IF a.err # "none" THEN a
    ELSE Bind(wrt_event(a.st, path_event_ssb, event.ev), LAMBDA r :
         IF r.err # "none" THEN r
         ELSE OK(r.st,
                 [absolute_event |-> a.val,
                  relative_event |->
                      [wrt_frame(r.val, event.ev.frame_id)
                          EXCEPT !.time = lts[Len(lts)]],
                  ssb |-> path_event_ssb,
                  event |-> event,
                  lts |-> lts])))

\* Path._solve_photon.  A failure after event.wrt_ssb() leaves the SSB copy
\* on the event; a light time that is not a number is reported as "nan".
solve_photon(st, self, event, sign, iters) ==
    Bind(connect(st, st.nodes[self].path_id, "SSB", "J2000"), LAMBDA p :
    IF p.err # "none" THEN [p EXCEPT !.val = [event |-> event]]
    ELSE Bind(wrt_ssb(p.st, event), LAMBDA e :
    IF e.err # "none" THEN [e EXCEPT !.val = [event |-> event]]
    ELSE Bind(initial_lt(event_at_time(e.st, p.val, event.ev.time),
                         e.val.ssb, sign * C), LAMBDA g :
    IF g.err # "none" THEN [Raise(e.st, g.err) EXCEPT !.val = [event |-> e.val]]
    ELSE Bind(newton(e.st, p.val, event.ev.time, e.val.ssb, sign * C,
                     <<g.lt>>, iters), LAMBDA n :
    IF n.err # "none" THEN [Raise(e.st, n.err) EXCEPT !.val = [event |-> e.val]]
    ELSE Bind(event_at_time(e.st, p.val,
                            event.ev.time + n.lts[Len(n.lts)]), LAMBDA pe :
    IF pe.err # "none" THEN [Raise(e.st, pe.err) EXCEPT !.val = [event |-> e.val]]
    ELSE Bind(fill(sign, pe, e.val), LAMBDA f :
         Bind(solved(e.st, self, f[2], f[1], n.lts), LAMBDA s :
         IF s.err # "none" THEN [s EXCEPT !.val = [event |-> f[2]]]
         ELSE s)))))))

\* Path.photon_from_event and Path.photon_to_event
path_photon_from_event(st, self, event, iters) ==
    solve_photon(st, self, event, 1, iters)

path_photon_to_event(st, self, event, iters) ==
    solve_photon(st, self, event, -1, iters)

(***************************************************************************)
(* The registry as a state machine                                         *)
(***************************************************************************)
RegState == [reg |-> REGISTRY, nodes |-> nodes, ancestry |-> ancestry]

RegInit ==
    /\ REGISTRY = initialize_registry([reg |-> <<>>]).reg
    /\ nodes = UserPaths
    /\ ancestry = [i \in 1..NumUser |-> IF i = SSB THEN <<SSB>> ELSE <<>>]
    /\ regLast = [op |-> "init", node |-> 0, shortcut |-> NoShortcut,
                  err |-> "none"]
    /\ regOps = 0
    /\ regShortcutUsed = FALSE

RegSet(r, op, n, sc) ==
    /\ regOps' = regOps + 1
    /\ regShortcutUsed' = (regShortcutUsed \/ sc # NoShortcut)
    /\ REGISTRY' = r.st.reg
    /\ nodes' = r.st.nodes
    /\ ancestry' = r.st.ancestry
    /\ regLast' = [op |-> op, node |-> n, shortcut |-> sc, err |-> r.err]
    /\ connLast' = NoConnect
    /\ UNCHANGED <<bpVars, solveVars, reshapeVars, sampleMasks>>

Register(n) ==
    /\ regOps < MaxRegOps
    /\ \E r \in {register(RegState, n, NoShortcut)} :
          RegSet(r, "register", n, NoShortcut)

RegisterShortcut(n, sc) ==
    /\ regOps < MaxRegOps
    /\ \E r \in {register(RegState, n, sc)} : RegSet(r, "register", n, sc)

Unregister(n) ==
    /\ regOps < MaxRegOps
    /\ \E r \in unregister(RegState, n) :
          RegSet(r, "unregister", n, NoShortcut)

Reregister(n) ==
    /\ regOps < MaxRegOps
    /\ \E r \in reregister(RegState, n) :
          RegSet(r, "reregister", n, NoShortcut)

RegNext ==
    \/ \E n \in 1..NumUser : Register(n)
    \/ \E n \in 1..NumUser, sc \in Shortcuts : RegisterShortcut(n, sc)
    \/ \E n \in 1..NumUser : Unregister(n)
    \/ \E n \in 1..NumUser : Reregister(n)

(***************************************************************************)
(* The connector as a state machine.  The client has constructed the paths *)
(* of ConnPaths and has registered A and B; it then registers and          *)
(* unregisters paths and asks for connections.                             *)
(***************************************************************************)
ConnPaths ==
    << Waypoint("SSB", "J2000"),
       PathObj("Base", "A", "SSB", "J2000", <<>>),
       PathObj("Base", "B", "A", "F1", <<>>),
       PathObj("Base", "C", "B", "J2000", <<>>),
       PathObj("Base", "A", "C", "J2000", <<>>),
       PathObj("Base", "D", "SSB", "F1", <<>>) >>

NumConn == Len(ConnPaths)

PathIds == {ConnPaths[i].path_id : i \in 1..NumConn}

\* The names a client may pass to Path.connect.
ConnectIds == PathIds \cup Shortcuts

FrameIds == {"J2000", "F1"}

ConnStart ==
    register(register([reg |-> initialize_registry([reg |-> <<>>]).reg,
                       nodes |-> ConnPaths,
                       ancestry |-> [i \in 1..NumConn |->
                                       IF i = SSB THEN <<SSB>> ELSE <<>>]],
                      2, NoShortcut).st, 3, NoShortcut).st

ConnInit ==
    /\ REGISTRY = ConnStart.reg
    /\ nodes = ConnStart.nodes
    /\ ancestry = ConnStart.ancestry
    /\ regLast = [op |-> "init", node |-> 0, shortcut |-> NoShortcut,
                  err |-> "none"]
    /\ regOps = 0
    /\ regShortcutUsed = FALSE
    /\ connLast = NoConnect

ConnSet(r, op, t, o, f) ==
    /\ regOps' = regOps + 1
    /\ REGISTRY' = r.st.reg
    /\ nodes' = r.st.nodes
    /\ ancestry' = r.st.ancestry
    /\ regLast' = [op |-> op, node |-> 0, shortcut |-> NoShortcut,
                   err |-> r.err]
    /\ connLast' = [op |-> op, target |-> t, origin |-> o, frame |-> f,
                    err |-> r.err, val |-> r.val,
                    events |-> IF op = "connect" /\ r.err = "none"
                               THEN [time \in Times |->
                                       event_at_time(r.st, r.val, time)]
                               ELSE <<>>,
                    again |-> /\ connLast.op = op
                              /\ connLast.err = "none"
                              /\ <<connLast.target, connLast.origin,
                                    connLast.frame>> = <<t, o, f>>,
                    swapped |-> /\ connLast.op = op
                                /\ connLast.err = "none"
                                /\ <<connLast.origin, connLast.target,
                                      connLast.frame>> = <<t, o, f>>]
    /\ UNCHANGED <<regShortcutUsed, bpVars, solveVars, reshapeVars, sampleMasks>>

Connect(t, o, f) ==
    /\ regOps < MaxConnOps
    /\ \E r \in {connect(RegState, t, o, f)} : ConnSet(r, "connect", t, o, f)

\* Path.common_ancestry of the primary definitions of two registered ids.
CommonAncestry(t, o) ==
    /\ regOps < MaxConnOps
    /\ as_primary(RegState, t) # 0
    /\ as_primary(RegState, o) # 0
    /\ \E r \in {IF \/ ancestry[as_primary(RegState, t)] = <<>>
                     \/ ancestry[as_primary(RegState, o)] = <<>>
                  THEN Raise(RegState, "AttributeError")
                  ELSE OK(RegState,
                          common_ancestry(RegState, as_primary(RegState, t),
                                          as_primary(RegState, o)))} :
          ConnSet(r, "common_ancestry", t, o, "-")

ConnRegister(n) == regOps < MaxConnOps /\ Register(n)

ConnRegisterShortcut(n, sc) == regOps < MaxConnOps /\ RegisterShortcut(n, sc)

ConnUnregister(n) == regOps < MaxUnregOps /\ Unregister(n)

\* The same client, once it has registered C as well, asking for common
\* ancestries.
AncStart == register(ConnStart, 4, NoShortcut).st

AncInit ==
    /\ REGISTRY = AncStart.reg
    /\ nodes = AncStart.nodes
    /\ ancestry = AncStart.ancestry
    /\ regLast = [op |-> "init", node |-> 0, shortcut |-> NoShortcut,
                  err |-> "none"]
    /\ regOps = 0
    /\ regShortcutUsed = FALSE
    /\ connLast = NoConnect

AncNext ==
    \/ \E n \in 1..NumConn : ConnRegister(n)
    \/ \E n \in 1..NumConn : ConnUnregister(n)
    \/ \E t \in PathIds, o \in PathIds : CommonAncestry(t, o)

\* A client that has set up a second root X the way initialize_registry
\* sets up SSB (lines 116-121: a Waypoint whose ancestry is itself, entered
\* under its three keys), besides registering A and B.  register() itself
\* never produces such a path: every ancestry it builds ends at SSB.
RootPaths ==
    << Waypoint("SSB", "J2000"),
       PathObj("Base", "A", "SSB", "J2000", <<>>),
       PathObj("Base", "B", "A", "F1", <<>>),
       Waypoint("X", "J2000") >>

\* The object that is the second root.
XROOT == Len(RootPaths)

RootIds == {RootPaths[i].path_id : i \in 1..Len(RootPaths)}

RootStart ==
    Bind(register(register([reg |-> initialize_registry([reg |-> <<>>]).reg,
                            nodes |-> RootPaths,
                            ancestry |-> [i \in 1..Len(RootPaths) |->
                                            IF i \in {SSB, XROOT} THEN <<i>>
                                            ELSE <<>>]],
                           2, NoShortcut).st, 3, NoShortcut).st, LAMBDA s :
    [s EXCEPT !.reg = Put(Put(Put(@, <<"X">>, XROOT), <<"X", "X">>, XROOT),
                          <<"X", "X", "J2000">>, XROOT)])

RootInit ==
    /\ REGISTRY = RootStart.reg
    /\ nodes = RootStart.nodes
    /\ ancestry = RootStart.ancestry
    /\ regLast = [op |-> "init", node |-> 0, shortcut |-> NoShortcut,
                  err |-> "none"]
    /\ regOps = 0
    /\ regShortcutUsed = FALSE
    /\ connLast = NoConnect

RootNext ==
    \/ \E n \in 1..Len(RootPaths) : ConnRegister(n)
    \/ \E t \in RootIds, o \in RootIds, f \in FrameIds : Connect(t, o, f)

ConnNext ==
    \/ \E n \in 1..NumConn : ConnRegister(n)
    \/ \E n \in 1..NumConn, sc \in Shortcuts : ConnRegisterShortcut(n, sc)
    \/ \E n \in 1..NumConn : ConnUnregister(n)
    \/ \E t \in ConnectIds, o \in ConnectIds, f \in FrameIds :
          Connect(t, o, f)


(***************************************************************************)
(***************************************************************************)
(* Backplane (oops_/backplane.py)                                          *)
(*                                                                         *)
(* Python keys are tuples or strings.  Str(s) is the string s and Tup(c)   *)
(* the tuple of the strings in c; Other is a key of any other type.        *)
(* An event object is identified by the call that made it: the dictionary  *)
(* family, the chain, whether it carries derivatives, whether it is a      *)
(* plain() copy, and the number of earlier solves for that chain.          *)
(***************************************************************************)
(***************************************************************************)
Str(s) == [tag |-> "str", v |-> <<s>>]
Tup(c) == [tag |-> "tup", v |-> c]
Other  == [tag |-> "other", v |-> <<>>]

Event(d, chain, derivs, plain, gen) ==
    [d |-> d, key |-> chain, derivs |-> derivs, plain |-> plain, gen |-> gen]

plain(ev) == [ev EXCEPT !.derivs = FALSE, !.plain = TRUE]

obs_event == Event("obs", <<>>, TRUE, FALSE, 0)
obs_gridless_event == Event("obs_gridless", <<>>, FALSE, FALSE, 0)

\* The body registry: ids are upper case.  A is a planet whose surface
\* implements intercept derivatives; R is a ring ansa whose surface does not;
\* the surface of SUN announces them but its photon_to_event raises
\* NotImplementedError when asked for them, as R's does.
upper(s) ==
    CASE s = "a" -> "A" [] s = "r" -> "R" [] s = "sun" -> "SUN" [] OTHER -> s

BodyIds == {"A", "R", "SUN"}

intercept_DERIVS_ARE_IMPLEMENTED(body) == body \in {"A", "SUN"}

derivs_raise(body) == body \in {"R", "SUN"}

COORDINATE_TYPE(body) == IF body = "R" THEN "cylindrical" ELSE "spherical"

(***************************************************************************)
(* Backplane.standardize_event_key                                         *)
(***************************************************************************)
standardize_event_key(event_key) ==
    IF event_key.tag = "str" THEN Tup(event_key.v)
    ELSE IF event_key.tag = "tup" THEN event_key
    ELSE Other

(***************************************************************************)
(* One invocation of photon_to_event for body, against the event dest.     *)
(* obtained is the destination the getter resolved for chain[1:].  The     *)
(* solve fills the arrival field of dest and is entered in the log.        *)
(***************************************************************************)
Solves(st, getter, chain) ==
    {l \in st.solveLog : l.getter = getter /\ l.key = chain}

photon_to_event(st, getter, d, chain, body, obtained, dest, derivs) ==
    LET ev == Event(d, chain, derivs, FALSE,
                    Cardinality(Solves(st, getter, chain)))
        entry == [getter |-> getter, key |-> chain, body |-> body,
                  obtained |-> obtained, dest |-> dest, derivs |-> derivs,
                  ev |-> ev]
    IN  OK([st EXCEPT !.solveLog = @ \cup {entry},
                      !.arrFilled = @ \cup {dest}], ev)

RECURSIVE get_surface_event(_, _)
RECURSIVE get_surface_event_w_derivs(_, _)
RECURSIVE get_path_event(_, _)

(***************************************************************************)
(* Backplane.get_surface_event, lines 244-252                              *)
(***************************************************************************)
surface_solve(st, event_key, dest) ==
    Bind(photon_to_event(st, "surface", "surface", event_key.v,
                         upper(event_key.v[1]), dest, dest, FALSE), LAMBDA r :
    OK([r.st EXCEPT !.surface_events = Put(@, event_key, r.val)], r.val))

(***************************************************************************)
(* Backplane.get_surface_event                                             *)
(***************************************************************************)
get_surface_event(st, raw_key) ==
    LET event_key == standardize_event_key(raw_key)
        c == event_key.v
    IN  IF event_key = Other THEN Raise(st, "ValueError")
        ELSE IF event_key \in DOMAIN st.surface_events
        THEN OK(st, st.surface_events[event_key])
        ELSE IF upper(c[1]) = "SUN" /\ Len(c) > 1
        THEN get_path_event(st, event_key)
        ELSE
        Bind(get_surface_event(st, Tup(Tail(c))), LAMBDA rd :
        IF rd.err # "none" THEN rd
        ELSE IF upper(c[1]) \notin BodyIds THEN Raise(rd.st, "KeyError")
        ELSE IF Len(c) = 1 /\ intercept_DERIVS_ARE_IMPLEMENTED(upper(c[1]))
        THEN Bind(get_surface_event_w_derivs(rd.st, event_key), LAMBDA rw :
             IF rw.err = "none"
             THEN OK(rw.st, rw.st.surface_events[event_key])
             ELSE IF rw.err = "NotImplementedError"
             THEN surface_solve(rw.st, event_key, rd.val)
             ELSE rw)
        ELSE surface_solve(rd.st, event_key, rd.val))

(***************************************************************************)
(* Backplane.get_surface_event_w_derivs                                    *)
(***************************************************************************)
get_surface_event_w_derivs(st, raw_key) ==
    LET event_key == standardize_event_key(raw_key)
        c == event_key.v
    IN  IF event_key = Other THEN Raise(st, "ValueError")
        ELSE IF event_key \in DOMAIN st.surface_events_w_derivs
        THEN OK(st, st.surface_events_w_derivs[event_key])
        ELSE
        Bind(get_surface_event(st, Tup(Tail(c))), LAMBDA rd :
        IF rd.err # "none" THEN rd
        ELSE IF upper(c[1]) \notin BodyIds THEN Raise(rd.st, "KeyError")
        ELSE IF derivs_raise(upper(c[1]))
        THEN Raise(rd.st, "NotImplementedError")
        ELSE
        Bind(photon_to_event(rd.st, "surface", "surface", c, upper(c[1]),
                             rd.val, rd.val, TRUE), LAMBDA r :
        Bind([r.st EXCEPT
                !.surface_events_w_derivs = Put(@, event_key, r.val),
                !.surface_events = Put(@, event_key, plain(r.val))],
             LAMBDA s1 :
        OK(IF Len(c) = 1
           THEN [s1 EXCEPT
                   !.surface_events_w_derivs = Put(@, Str(c[1]), r.val),
                   !.surface_events = Put(@, Str(c[1]), plain(r.val))]
           ELSE s1, r.val))))

(***************************************************************************)
(* Backplane.get_path_event                                                *)
(***************************************************************************)
get_path_event(st, raw_key) ==
    LET event_key == standardize_event_key(raw_key)
        c == event_key.v
    IN  IF event_key = Other THEN Raise(st, "ValueError")
        ELSE IF event_key \in DOMAIN st.path_events
        THEN OK(st, st.path_events[event_key])
        ELSE
        Bind(get_surface_event(st, Tup(IF c = <<>> THEN c ELSE Tail(c))),
             LAMBDA rd :
        IF rd.err # "none" THEN rd
        ELSE IF c = <<>> THEN Raise(rd.st, "IndexError")
        ELSE IF upper(c[1]) \notin BodyIds THEN Raise(rd.st, "KeyError")
        ELSE
        Bind(photon_to_event(rd.st, "path", "path", c, upper(c[1]),
                             rd.val, rd.val, FALSE), LAMBDA r :
        Bind([r.st EXCEPT !.path_events = Put(@, event_key, r.val)],
             LAMBDA s1 :
        OK(IF Len(c) = 1
           THEN [s1 EXCEPT !.path_events = Put(@, Str(c[1]), r.val)]
           ELSE s1, r.val))))

(***************************************************************************)
(* Backplane.get_surface_event_with_arr.  The key given is concatenated    *)
(* to ("sun",) as it is, which is a TypeError for a string.                *)
(***************************************************************************)
get_surface_event_with_arr(st, raw_key) ==
    Bind(get_surface_event(st, raw_key), LAMBDA r :
    IF r.err # "none" THEN r
    ELSE IF r.val \in r.st.arrFilled THEN r
    ELSE IF raw_key.tag # "tup" THEN Raise(r.st, "TypeError")
    ELSE Bind(get_path_event(r.st, Tup(<<"sun">> \o raw_key.v)), LAMBDA rp :
         IF rp.err # "none" THEN rp ELSE OK(rp.st, r.val)))

RECURSIVE get_gridless_event(_, _)

\* A variant of get_gridless_event that does not request the event of the
\* rest of the chain, which the solve does not use.
get_gridless_event_alone(st, raw_key) ==
    LET event_key == standardize_event_key(raw_key)
        c == event_key.v
    IN  IF event_key = Other THEN Raise(st, "ValueError")
        ELSE IF event_key \in DOMAIN st.gridless_events
        THEN OK(st, st.gridless_events[event_key])
        ELSE IF upper(c[1]) \notin BodyIds THEN Raise(st, "KeyError")
        ELSE
        Bind(photon_to_event(st, "gridless", "gridless", c, upper(c[1]),
                             obs_gridless_event, obs_gridless_event, FALSE),
             LAMBDA r :
        OK([r.st EXCEPT !.gridless_events = Put(@, event_key, r.val)],
           r.val))

(***************************************************************************)
(* Backplane.get_gridless_event                                            *)
(***************************************************************************)
get_gridless_event(st, raw_key) ==
    LET event_key == standardize_event_key(raw_key)
        c == event_key.v
    IN  IF event_key = Other THEN Raise(st, "ValueError")
        ELSE IF event_key \in DOMAIN st.gridless_events
        THEN OK(st, st.gridless_events[event_key])
        ELSE
        Bind(get_gridless_event(st, Tup(Tail(c))), LAMBDA rd :
        IF rd.err # "none" THEN rd
        ELSE IF upper(c[1]) \notin BodyIds THEN Raise(rd.st, "KeyError")
        ELSE
        Bind(photon_to_event(rd.st, "gridless", "gridless", c, upper(c[1]),
                             rd.val, obs_gridless_event, FALSE), LAMBDA r :
        OK([r.st EXCEPT !.gridless_events = Put(@, event_key, r.val)],
           r.val)))

(***************************************************************************)
(* Backplane.get_gridless_event_with_arr                                   *)
(***************************************************************************)
get_gridless_event_with_arr(st, raw_key) ==
    LET event_key == standardize_event_key(raw_key)
    IN  IF event_key = Other THEN Raise(st, "ValueError")
        ELSE
        Bind(get_gridless_event(st, event_key), LAMBDA r :
        IF r.err # "none" THEN r
        ELSE IF r.val \in r.st.arrFilled THEN r
        ELSE OK(photon_to_event(r.st, "gridless_arr", "path",
                                <<"sun">> \o event_key.v, "SUN",
                                r.val, r.val, FALSE).st, r.val))

(***************************************************************************)
(* Backplane.register_backplane: the array is copied by plain(), given the *)
(* key as an attribute and stored.  An array object is identified by its   *)
(* key and the number of arrays made for that key before it.               *)
(***************************************************************************)
Array(st, key, val, temp) ==
    [key |-> key, val |-> val, temp |-> temp,
     gen |-> Cardinality({a \in st.arrays : a.key = key /\ a.temp = temp})]

register_backplane(st, key, val) ==
    Bind(Array(st, key, val, FALSE), LAMBDA a :
    [st EXCEPT !.backplanes = Put(@, key, a), !.arrays = @ \cup {a}])

(***************************************************************************)
(* Backplane.register_gridless_backplane                                   *)
(***************************************************************************)
register_gridless_backplane(st, key, val) ==
    Bind(Array(st, key, val, FALSE), LAMBDA a :
    [st EXCEPT !.backplanes = Put(@, key, a), !.arrays = @ \cup {a}])

\* The result of an arithmetic expression: a new array that is not stored.
Temporary(st, key, val) ==
    Bind(Array(st, key, val, TRUE), LAMBDA a :
    OK([st EXCEPT !.arrays = @ \cup {a}], a))

(***************************************************************************)
(* Backplane.light_time.  Only events made by a photon solve carry the     *)
(* light time subfields.                                                   *)
(***************************************************************************)
light_time(st, raw_key, direction) ==
    LET event_key == standardize_event_key(raw_key)
        key == <<Str("light_time"), event_key, Str(direction)>>
    IN  IF event_key = Other THEN Raise(st, "ValueError")
        ELSE IF direction \notin {"dep", "arr"} THEN Raise(st, "AssertionError")
        ELSE IF key \in DOMAIN st.backplanes THEN OK(st, st.backplanes[key])
        ELSE
        Bind(IF direction = "arr"
             THEN get_surface_event_with_arr(st, event_key)
             ELSE get_surface_event(st, event_key), LAMBDA r :
        IF r.err # "none" THEN r
        ELSE IF r.val.d = "obs" THEN Raise(r.st, "KeyError")
        ELSE Bind(register_backplane(r.st, key, <<"abs", "lt">>), LAMBDA s1 :
             OK(s1, s1.backplanes[key])))

(***************************************************************************)
(* Backplane.distance                                                      *)
(***************************************************************************)
distance(st, raw_key, direction) ==
    LET event_key == standardize_event_key(raw_key)
        key == <<Str("distance"), event_key, Str(direction)>>
    IN  IF event_key = Other THEN Raise(st, "ValueError")
        ELSE IF direction \notin {"dep", "arr"} THEN Raise(st, "AssertionError")
        ELSE IF key \in DOMAIN st.backplanes THEN OK(st, st.backplanes[key])
        ELSE
        Bind(light_time(st, event_key, direction), LAMBDA r :
        IF r.err # "none" THEN r
        ELSE Bind(register_backplane(r.st, key, <<"mul", "lt", "C">>),
                  LAMBDA s1 : OK(s1, s1.backplanes[key])))

(***************************************************************************)
(* Backplane.sub_observer_longitude                                        *)
(***************************************************************************)
sub_observer_longitude(st, raw_key) ==
    LET event_key == standardize_event_key(raw_key)
        key == <<Str("sub_observer_longitude"), event_key>>
    IN  IF event_key = Other THEN Raise(st, "ValueError")
        ELSE IF key \in DOMAIN st.backplanes THEN OK(st, st.backplanes[key])
        ELSE
        Bind(get_gridless_event(st, event_key), LAMBDA r :
        IF r.err # "none" THEN r
        ELSE Bind(register_gridless_backplane(r.st, key, <<"lon">>),
                  LAMBDA s1 : OK(s1, s1.backplanes[key])))

(***************************************************************************)
(* Backplane.sub_solar_longitude                                           *)
(***************************************************************************)
sub_solar_longitude(st, raw_key) ==
    LET event_key == standardize_event_key(raw_key)
        key == <<Str("sub_solar_longitude"), event_key>>
    IN  IF event_key = Other THEN Raise(st, "ValueError")
        ELSE IF key \in DOMAIN st.backplanes THEN OK(st, st.backplanes[key])
        ELSE
        Bind(get_gridless_event_with_arr(st, event_key), LAMBDA r :
        IF r.err # "none" THEN r
        ELSE Bind(register_gridless_backplane(r.st, key, <<"lon">>),
                  LAMBDA s1 : OK(s1, s1.backplanes[key])))

(***************************************************************************)
(* Backplane.sub_longitude: nothing is stored under the key of the call;   *)
(* for "west" the result is the new array TWOPI - lon.                     *)
(***************************************************************************)
sub_longitude(st, raw_key, reference, direction) ==
    IF reference \notin {"obs", "sun"} THEN Raise(st, "AssertionError")
    ELSE
    Bind(IF reference = "obs"
         THEN sub_observer_longitude(st, raw_key)
         ELSE sub_solar_longitude(st, raw_key), LAMBDA r :
    IF r.err # "none" THEN r
    ELSE IF direction = "west"
    THEN Temporary(r.st, <<Str("sub_longitude"), raw_key,
                           Str(reference), Str(direction)>>,
                   <<"sub", "TWOPI", "lon">>)
    ELSE r)

(***************************************************************************)
(* Backplane._fill_ansa_intercepts.  Only surface events carry the         *)
(* "surface" subfield.                                                     *)
(***************************************************************************)
fill_ansa_intercepts(st, raw_key) ==
    LET event_key == standardize_event_key(raw_key)
    IN  Bind(get_surface_event(st, event_key), LAMBDA r :
        IF r.err # "none" THEN r
        ELSE IF r.val.d # "surface" THEN Raise(r.st, "AttributeError")
        ELSE IF COORDINATE_TYPE(upper(r.val.key[1])) # "cylindrical"
        THEN Raise(r.st, "AssertionError")
        ELSE
        Bind(register_backplane(r.st, <<Str("ansa_radius"), event_key,
                                        Str("right")>>, <<"r">>), LAMBDA s1 :
        OK(register_backplane(s1, <<Str("ansa_altitude"), event_key>>,
                              <<"z">>), 0)))

\* Arithmetic on the symbolic value of an array.
negated(val) == <<"neg">> \o val

absolute(val) == <<"abs">> \o val

(***************************************************************************)
(* Backplane.ansa_radius                                                   *)
(***************************************************************************)
ansa_radius(st, raw_key, radius_type) ==
    LET event_key == standardize_event_key(raw_key)
        key == <<Str("ansa_radius"), event_key, Str(radius_type)>>
        key_default == <<Str("ansa_radius"), event_key, Str("right")>>
    IN  IF event_key = Other THEN Raise(st, "ValueError")
        ELSE IF key \in DOMAIN st.backplanes THEN OK(st, st.backplanes[key])
        ELSE IF radius_type \notin {"right", "left", "positive"}
        THEN Raise(st, "AssertionError")
        ELSE
        Bind(IF key_default \notin DOMAIN st.backplanes
             THEN Bind(fill_ansa_intercepts(st, event_key), LAMBDA f :
                  IF f.err # "none" THEN f
                  ELSE LET v == f.st.backplanes[key_default].val
                       IN  OK(register_backplane(f.st, key,
                                 IF radius_type = "left"
                                 THEN negated(v) ELSE absolute(v)), 0))
             ELSE OK(st, 0), LAMBDA r :
        IF r.err # "none" THEN r
        ELSE IF key \in DOMAIN r.st.backplanes
        THEN OK(r.st, r.st.backplanes[key])
        ELSE Raise(r.st, "KeyError"))

(***************************************************************************)
(* Backplane.ansa_altitude                                                 *)
(***************************************************************************)
ansa_altitude(st, raw_key) ==
    LET event_key == standardize_event_key(raw_key)
        key == <<Str("ansa_altitude"), event_key>>
    IN  IF event_key = Other THEN Raise(st, "ValueError")
        ELSE IF key \in DOMAIN st.backplanes THEN OK(st, st.backplanes[key])
        ELSE Bind(fill_ansa_intercepts(st, event_key), LAMBDA f :
             IF f.err # "none" THEN f
             ELSE OK(f.st, f.st.backplanes[key]))

(***************************************************************************)
(* Backplane._fill_surface_resolution                                      *)
(***************************************************************************)
fill_surface_resolution(st, raw_key) ==
    LET event_key == standardize_event_key(raw_key)
    IN  Bind(get_surface_event_w_derivs(st, event_key), LAMBDA r :
        IF r.err # "none" THEN r
        ELSE
        Bind(register_backplane(r.st, <<Str("finest_resolution"), event_key>>,
                                <<"minres">>), LAMBDA s1 :
        OK(register_backplane(s1, <<Str("coarsest_resolution"), event_key>>,
                              <<"maxres">>), 0)))

(***************************************************************************)
(* Backplane.finest_resolution                                             *)
(***************************************************************************)
finest_resolution(st, raw_key) ==
    LET event_key == standardize_event_key(raw_key)
        key == <<Str("finest_resolution"), event_key>>
    IN  IF event_key = Other THEN Raise(st, "ValueError")
        ELSE IF key \in DOMAIN st.backplanes THEN OK(st, st.backplanes[key])
        ELSE Bind(fill_surface_resolution(st, event_key), LAMBDA f :
             IF f.err # "none" THEN f
             ELSE OK(f.st, f.st.backplanes[key]))

(***************************************************************************)
(* Backplane.where_intercepted                                             *)
(***************************************************************************)
where_intercepted(st, raw_key) ==
    LET event_key == standardize_event_key(raw_key)
        key == <<Str("where_intercepted"), event_key>>
    IN  IF event_key = Other THEN Raise(st, "ValueError")
        ELSE IF key \in DOMAIN st.backplanes THEN OK(st, st.backplanes[key])
        ELSE
        Bind(get_surface_event(st, event_key), LAMBDA r :
        IF r.err # "none" THEN r
        ELSE Bind(register_backplane(r.st, key, <<"mask">>), LAMBDA s1 :
             OK(s1, s1.backplanes[key])))

(***************************************************************************)
(* Backplane.where_in_front                                                *)
(***************************************************************************)
where_in_front(st, raw_key, raw_body) ==
    LET event_key == standardize_event_key(raw_key)
        back_body == standardize_event_key(raw_body)
        key == <<Str("where_in_front"), event_key, Str(back_body.v[1])>>
    IN  IF event_key = Other \/ back_body = Other
        THEN Raise(st, "ValueError")
        ELSE IF back_body.v = <<>> THEN Raise(st, "IndexError")
        ELSE IF key \in DOMAIN st.backplanes THEN OK(st, st.backplanes[key])
        ELSE
        Bind(get_surface_event(st, event_key), LAMBDA rf :
        IF rf.err # "none" THEN rf
        ELSE
        Bind(get_surface_event(rf.st, back_body), LAMBDA rb :
        IF rb.err # "none" THEN rb
        ELSE
        Bind(distance(rb.st, event_key, "dep"), LAMBDA df :
        IF df.err # "none" THEN df
        ELSE
        Bind(distance(df.st, back_body, "dep"), LAMBDA db :
        IF db.err # "none" THEN db
        ELSE Bind(register_backplane(db.st, key, <<"mask">>), LAMBDA s1 :
             OK(s1, s1.backplanes[key]))))))

(***************************************************************************)
(* Backplane.incidence_angle.  Only surface events carry the "surface"     *)
(* subfield.                                                               *)
(***************************************************************************)
incidence_angle(st, raw_key) ==
    LET event_key == standardize_event_key(raw_key)
        key == <<Str("incidence_angle"), event_key>>
    IN  IF event_key = Other THEN Raise(st, "ValueError")
        ELSE IF key \in DOMAIN st.backplanes THEN OK(st, st.backplanes[key])
        ELSE
        Bind(get_surface_event_with_arr(st, event_key), LAMBDA r :
        IF r.err # "none" THEN r
        ELSE IF r.val.d # "surface" THEN Raise(r.st, "AttributeError")
        ELSE
        Bind(IF COORDINATE_TYPE(upper(r.val.key[1])) = "polar"
             THEN register_backplane(r.st, <<Str("ring_flip"), event_key>>,
                                     <<"flip">>)
             ELSE r.st, LAMBDA s1 :
        Bind(register_backplane(s1, key, <<"incidence">>), LAMBDA s2 :
        OK(s2, s2.backplanes[key]))))

(***************************************************************************)
(* Backplane.where_sunward: the key is ("where_sunward",) + event_key, the  *)
(* function name followed by the body names of the chain.                  *)
(***************************************************************************)
where_sunward(st, raw_key) ==
    LET event_key == standardize_event_key(raw_key)
        key == <<Str("where_sunward")>>
                   \o [i \in 1..Len(event_key.v) |-> Str(event_key.v[i])]
    IN  IF event_key = Other THEN Raise(st, "ValueError")
        ELSE IF key \in DOMAIN st.backplanes THEN OK(st, st.backplanes[key])
        ELSE
        Bind(incidence_angle(st, event_key), LAMBDA r :
        IF r.err # "none" THEN r
        ELSE Bind(register_backplane(r.st, key, <<"mask">>), LAMBDA s1 :
             OK(s1, s1.backplanes[key])))

(***************************************************************************)
(* Backplane.coarsest_resolution                                           *)
(***************************************************************************)
coarsest_resolution(st, raw_key) ==
    LET event_key == standardize_event_key(raw_key)
        key == <<Str("coarsest_resolution"), event_key>>
    IN  IF event_key = Other THEN Raise(st, "ValueError")
        ELSE IF key \in DOMAIN st.backplanes THEN OK(st, st.backplanes[key])
        ELSE Bind(fill_surface_resolution(st, event_key), LAMBDA f :
             IF f.err # "none" THEN f
             ELSE OK(f.st, f.st.backplanes[key]))

(***************************************************************************)
(* Backplane.CALLABLES                                                     *)
(***************************************************************************)
CALLABLES ==
    {"right_ascension", "declination",
     "center_right_ascension", "center_declination",
     "distance", "light_time", "event_time", "resolution",
     "center_distance", "center_light_time", "center_time",
     "center_resolution",
     "incidence_angle", "emission_angle", "phase_angle",
     "scattering_angle", "lambert_law",
     "center_incidence_angle", "center_emission_angle", "center_phase_angle",
     "center_scattering_angle",
     "longitude", "latitude",
     "sub_longitude", "sub_latitude",
     "finest_resolution", "coarsest_resolution",
     "altitude",
     "ring_radius", "ring_longitude", "ring_azimuth", "ring_elevation",
     "ring_radial_resolution", "ring_angular_resolution",
     "ansa_radius", "ansa_altitude", "ansa_longitude",
     "ansa_radial_resolution", "ansa_vertical_resolution",
     "where_intercepted",
     "where_inside_shadow", "where_outside_shadow",
     "where_in_front", "where_in_back",
     "where_sunward", "where_antisunward",
     "where_below", "where_above", "where_between",
     "where_not", "where_any", "where_all",
     "border_below", "border_above", "border_atop",
     "border_inside", "border_outside"}

\* A positional argument used as an option string, with its default.
Option(args, i, default) ==
    IF Len(args) < i THEN default
    ELSE IF args[i].tag = "str" THEN args[i].v[1] ELSE "?"

(***************************************************************************)
(* Backplane.evaluate, line 2231: the method named func is called with     *)
(* the rest of the key as its positional arguments.                        *)
(***************************************************************************)
call(st, func, args) ==
    CASE func = "distance" ->
            IF Len(args) \in 1..2
            THEN distance(st, args[1], Option(args, 2, "dep"))
            ELSE Raise(st, "TypeError")
      [] func = "light_time" ->
            IF Len(args) \in 1..2
            THEN light_time(st, args[1], Option(args, 2, "dep"))
            ELSE Raise(st, "TypeError")
      [] func = "sub_longitude" ->
            IF Len(args) \in 1..3
            THEN sub_longitude(st, args[1], Option(args, 2, "obs"),
                               Option(args, 3, "east"))
            ELSE Raise(st, "TypeError")
      [] func = "ansa_radius" ->
            IF Len(args) \in 1..2
            THEN ansa_radius(st, args[1], Option(args, 2, "right"))
            ELSE Raise(st, "TypeError")
      [] func = "ansa_altitude" ->
            IF Len(args) = 1 THEN ansa_altitude(st, args[1])
            ELSE Raise(st, "TypeError")
      [] func = "finest_resolution" ->
            IF Len(args) = 1 THEN finest_resolution(st, args[1])
            ELSE Raise(st, "TypeError")
      [] func = "coarsest_resolution" ->
            IF Len(args) = 1 THEN coarsest_resolution(st, args[1])
            ELSE Raise(st, "TypeError")
      [] func = "incidence_angle" ->
            IF Len(args) = 1 THEN incidence_angle(st, args[1])
            ELSE Raise(st, "TypeError")
      [] func = "where_intercepted" ->
            IF Len(args) = 1 THEN where_intercepted(st, args[1])
            ELSE Raise(st, "TypeError")
      [] func = "where_in_front" ->
            IF Len(args) = 2 THEN where_in_front(st, args[1], args[2])
            ELSE Raise(st, "TypeError")
      [] func = "where_sunward" ->
            IF Len(args) = 1 THEN where_sunward(st, args[1])
            ELSE Raise(st, "TypeError")
      [] func = "get_surface_event" ->
            IF Len(args) = 1 THEN get_surface_event(st, args[1])
            ELSE Raise(st, "TypeError")
      [] OTHER -> Raise(st, "NotModelled")

\* A variant of evaluate that calls whatever method the key names.
evaluate_any(st, backplane_key) ==
    LET key == IF backplane_key.tag = "str" THEN <<backplane_key>>
               ELSE backplane_key.v
    IN  call(st, key[1].v[1], Tail(key))

(***************************************************************************)
(* Backplane.evaluate                                                      *)
(***************************************************************************)
evaluate(st, backplane_key) ==
    LET key  == IF backplane_key.tag = "str" THEN <<backplane_key>>
                ELSE backplane_key.v
        func == key[1].v[1]
    IN  IF func \notin CALLABLES THEN Raise(st, "ValueError")
        ELSE call(st, func, Tail(key))

(***************************************************************************)
(* The Backplane as a state machine                                        *)
(***************************************************************************)
EventKeys ==
    {Tup(<<>>), Tup(<<"a">>), Tup(<<"r">>), Tup(<<"a", "r">>), Str("a")}

BackplaneKeys ==
    {Tup(<<Str("distance"), Tup(<<"a">>)>>),
     Tup(<<Str("distance"), Tup(<<"a", "r">>), Str("dep")>>),
     Tup(<<Str("distance"), Tup(<<"r">>), Str("arr")>>),
     Tup(<<Str("finest_resolution"), Tup(<<"a", "r">>)>>),
     Tup(<<Str("sub_longitude"), Tup(<<"a">>), Str("obs"), Str("east")>>),
     Tup(<<Str("sub_longitude"), Tup(<<"a">>), Str("obs"), Str("west")>>),
     Tup(<<Str("sub_longitude"), Tup(<<"a">>), Str("sun"), Str("west")>>),
     Tup(<<Str("ansa_radius"), Tup(<<"r">>), Str("right")>>),
     Tup(<<Str("ansa_radius"), Tup(<<"r">>), Str("left")>>),
     Tup(<<Str("ansa_radius"), Tup(<<"r">>), Str("positive")>>),
     Tup(<<Str("ansa_altitude"), Tup(<<"r">>)>>),
     Tup(<<Str("get_surface_event"), Tup(<<"a">>)>>),
     Str("distance")}

BpState ==
    [surface_events |-> surface_events,
     surface_events_w_derivs |-> surface_events_w_derivs,
     path_events |-> path_events, gridless_events |-> gridless_events,
     backplanes |-> backplanes, arrFilled |-> arrFilled,
     solveLog |-> solveLog, arrays |-> arrays]

\* Backplane.__init__: the observer events carry their arrival directions.
BpInit ==
    /\ surface_events_w_derivs = [k \in {Tup(<<>>)} |-> obs_event]
    /\ surface_events = [k \in {Tup(<<>>)} |-> plain(obs_event)]
    /\ path_events = <<>>
    /\ gridless_events = [k \in {Tup(<<>>)} |-> obs_gridless_event]
    /\ backplanes = <<>>
    /\ arrFilled = {obs_event, plain(obs_event), obs_gridless_event}
    /\ solveLog = {}
    /\ arrays = {}
    /\ bpLast = [op |-> "init", key |-> Other, err |-> "none", val |-> Other,
                 made |-> {}]
    /\ bpOps = 0

BpSet(r, op, key) ==
    /\ bpOps' = bpOps + 1
    /\ surface_events' = r.st.surface_events
    /\ surface_events_w_derivs' = r.st.surface_events_w_derivs
    /\ path_events' = r.st.path_events
    /\ gridless_events' = r.st.gridless_events
    /\ backplanes' = r.st.backplanes
    /\ arrFilled' = r.st.arrFilled
    /\ solveLog' = r.st.solveLog
    /\ arrays' = r.st.arrays
    /\ bpLast' = [op |-> op, key |-> key, err |-> r.err,
                  val |-> IF r.err = "none" THEN r.val ELSE Other,
                  made |-> r.st.arrays \ arrays]
    /\ UNCHANGED <<regVars, connVars, solveVars, reshapeVars, sampleMasks>>

GetSurfaceEvent(k) ==
    /\ bpOps < MaxBpOps
    /\ \E r \in {get_surface_event(BpState, k)} :
          BpSet(r, "get_surface_event", k)

GetSurfaceEventWDerivs(k) ==
    /\ bpOps < MaxBpOps
    /\ \E r \in {get_surface_event_w_derivs(BpState, k)} :
          BpSet(r, "get_surface_event_w_derivs", k)

GetPathEvent(k) ==
    /\ bpOps < MaxBpOps
    /\ \E r \in {get_path_event(BpState, k)} :
          BpSet(r, "get_path_event", k)

GetSurfaceEventWithArr(k) ==
    /\ bpOps < MaxBpOps
    /\ \E r \in {get_surface_event_with_arr(BpState, k)} :
          BpSet(r, "get_surface_event_with_arr", k)

GetGridlessEvent(k) ==
    /\ bpOps < MaxBpOps
    /\ \E r \in {get_gridless_event(BpState, k)} :
          BpSet(r, "get_gridless_event", k)

GetGridlessEventWithArr(k) ==
    /\ bpOps < MaxBpOps
    /\ \E r \in {get_gridless_event_with_arr(BpState, k)} :
          BpSet(r, "get_gridless_event_with_arr", k)

Evaluate(bk) ==
    /\ bpOps < MaxBpOps
    /\ \E r \in {evaluate(BpState, bk)} : BpSet(r, "evaluate", bk)

BpNext ==
    \/ \E k \in EventKeys : GetSurfaceEvent(k)
    \/ \E k \in EventKeys : GetSurfaceEventWDerivs(k)
    \/ \E k \in EventKeys : GetPathEvent(k)
    \/ \E k \in EventKeys : GetSurfaceEventWithArr(k)
    \/ \E k \in EventKeys : GetGridlessEvent(k)
    \/ \E k \in EventKeys : GetGridlessEventWithArr(k)
    \/ \E bk \in BackplaneKeys : Evaluate(bk)

(***************************************************************************)
(* The photon solver as a state machine.  The client has registered a      *)
(* path P at rest at the origin, a path Q that moves along the x axis of   *)
(* J2000 and a path R that moves the other way and is given relative to P  *)
(* in the frame F1.  It constructs an event and solves for photons         *)
(* between that event and its paths.                                       *)
(***************************************************************************)
SolvePaths ==
    << Waypoint("SSB", "J2000"),
       PathObj("Base", "P", "SSB", "J2000", <<>>),
       PathObj("Base", "Q", "SSB", "J2000", <<>>),
       PathObj("Base", "R", "P", "F1", <<>>) >>

SolveStart ==
    register(register(register(
        [reg |-> initialize_registry([reg |-> <<>>]).reg,
         nodes |-> SolvePaths,
         ancestry |-> [i \in 1..Len(SolvePaths) |->
                         IF i = SSB THEN <<SSB>> ELSE <<>>]],
        2, NoShortcut).st, 3, NoShortcut).st, 4, NoShortcut).st

SolveInit ==
    /\ REGISTRY = SolveStart.reg
    /\ nodes = SolveStart.nodes
    /\ ancestry = SolveStart.ancestry
    /\ regLast = [op |-> "init", node |-> 0, shortcut |-> NoShortcut,
                  err |-> "none"]
    /\ regOps = 0
    /\ regShortcutUsed = FALSE
    /\ connLast = NoConnect
    /\ solveEvent = NoEvent
    /\ solveLast = NoSolve

\* The events a client constructs: on the x axis of J2000, at rest or
\* moving along it, given relative to SSB or to P in either frame.
ClientEvents ==
    { PathEvent(time, Turn(<<x, 0>>, Turns(f)), Turn(<<u, 0>>, Turns(f)),
                o, f) :
        time \in {0, Unit}, x \in {-Unit, Unit, 3 * Unit}, u \in {0, 1},
        o \in {"SSB", "P"}, f \in FrameIds }

NewEvent(ev) ==
    /\ regOps < MaxSolveOps
    /\ regOps' = regOps + 1
    /\ solveEvent' = EventObj(ev)
    /\ solveLast' = [op |-> "event"]
    /\ regLast' = [op |-> "event", node |-> 0, shortcut |-> NoShortcut,
                   err |-> "none"]
    /\ UNCHANGED <<REGISTRY, nodes, ancestry, regShortcutUsed, connVars,
                   bpVars, reshapeVars, sampleMasks>>

SolveSet(r, op, n, sign, iters) ==
    /\ regOps' = regOps + 1
    /\ REGISTRY' = r.st.reg
    /\ nodes' = r.st.nodes
    /\ ancestry' = r.st.ancestry
    /\ regLast' = [op |-> op, node |-> n, shortcut |-> NoShortcut,
                   err |-> r.err]
    /\ solveEvent' = r.val.event
    /\ solveLast' = [op |-> op, path |-> n, sign |-> sign, iters |-> iters,
                     err |-> r.err, before |-> solveEvent,
                     absolute_event |-> IF r.err = "none"
                                        THEN r.val.absolute_event
                                        ELSE NoEvent,
                     relative_event |-> IF r.err = "none"
                                        THEN r.val.relative_event
                                        ELSE NoEvent,
                     ssb |-> IF r.err = "none" THEN r.val.ssb ELSE NoEvent,
                     lts |-> IF r.err = "none" THEN r.val.lts ELSE <<>>]
    /\ UNCHANGED <<regShortcutUsed, connVars, bpVars, reshapeVars, sampleMasks>>

PhotonFromEvent(n, iters) ==
    /\ regOps < MaxSolveOps
    /\ solveEvent # NoEvent
    /\ \E r \in {path_photon_from_event(RegState, n, solveEvent, iters)} :
          SolveSet(r, "photon_from_event", n, 1, iters)

PhotonToEvent(n, iters) ==
    /\ regOps < MaxSolveOps
    /\ solveEvent # NoEvent
    /\ \E r \in {path_photon_to_event(RegState, n, solveEvent, iters)} :
          SolveSet(r, "photon_to_event", n, -1, iters)

SolveNext ==
    \/ \E ev \in ClientEvents : NewEvent(ev)
    \/ \E n \in 2..Len(SolvePaths), iters \in 0..MaxIters :
          PhotonFromEvent(n, iters)
    \/ \E n \in 2..Len(SolvePaths), iters \in 0..MaxIters :
          PhotonToEvent(n, iters)

(***************************************************************************)
(* Specifications                                                          *)
(***************************************************************************)
SolveIdle == solveEvent = NoEvent /\ solveLast = NoSolve

ReshapeIdle == reshapeTest = NoTest /\ arg1 = NoTstep /\ arg2 = NoTstep

\* No sample of the observation is invalid anywhere.
MasksIdle == sampleMasks = NoMasks

Init ==
    RegInit /\ BpInit /\ connLast = NoConnect /\ SolveIdle /\ ReshapeIdle
    /\ MasksIdle

\* The registry on its own, the Backplane on its own, and both together.
SpecRegistry == Init /\ [][RegNext]_vars

SpecBackplane == Init /\ [][BpNext]_vars

\* The connector, started from a registry that holds A and B.
ConnectInit == ConnInit /\ BpInit /\ SolveIdle /\ ReshapeIdle
    /\ MasksIdle

SpecConnect == ConnectInit /\ [][ConnNext]_vars

\* Path.common_ancestry, started from a registry that holds A, B and C.
AncestryInit == AncInit /\ BpInit /\ SolveIdle /\ ReshapeIdle
    /\ MasksIdle

SpecAncestry == AncestryInit /\ [][AncNext]_vars

\* The photon solver.
SolverInit == SolveInit /\ BpInit /\ ReshapeIdle /\ MasksIdle

SpecSolve == SolverInit /\ [][SolveNext]_vars

\* The connector in a registry with two roots.
RootsInit == RootInit /\ BpInit /\ SolveIdle /\ ReshapeIdle
    /\ MasksIdle

SpecRoots == RootsInit /\ [][RootNext]_vars

Next == RegNext \/ BpNext

Spec == Init /\ [][Next]_vars

(***************************************************************************)
(* Backplane claims                                                        *)
(***************************************************************************)
\* C1: for a fixed Backplane and any sequence of event and quantity
\* requests, the photon solver is invoked exactly once for each distinct
\* event chain (of each event dictionary), however many quantities depend on
\* it and whether it is requested with or without derivatives.
C1_OneSolvePerChain ==
    /\ \A l1, l2 \in solveLog :
          (l1.getter = l2.getter /\ l1.key = l2.key) => l1 = l2
    /\ \A k \in DOMAIN surface_events :
          (k.tag = "tup" /\ k.v # <<>>)
          => \E l \in solveLog : l.getter = "surface" /\ l.key = k.v

\* C2: two successive calls of Backplane.evaluate with the same key return
\* the same array object, and the formula is computed in at most one of them.
C2_EvaluateIdempotent ==
    [][ (/\ bpLast.op = "evaluate" /\ bpLast.err = "none"
         /\ bpOps' # bpOps
         /\ bpLast'.op = "evaluate" /\ bpLast'.key = bpLast.key)
        => (/\ bpLast'.err = "none"
            /\ bpLast'.val = bpLast.val
            /\ (bpLast.made = {} \/ bpLast'.made = {})) ]_vars

AppendOnly(old, new) == \A k \in DOMAIN old : k \in DOMAIN new /\ new[k] = old[k]

\* C3: the caches are append-only: once a key is present in backplanes,
\* surface_events, surface_events_w_derivs, path_events or gridless_events it
\* is never rebound to a different object, recomputed or removed.
C3_CachesAppendOnly ==
    [][ /\ AppendOnly(backplanes, backplanes')
        /\ AppendOnly(surface_events, surface_events')
        /\ AppendOnly(surface_events_w_derivs, surface_events_w_derivs')
        /\ AppendOnly(path_events, path_events')
        /\ AppendOnly(gridless_events, gridless_events')
        /\ \A a, b \in arrays' :
              (~a.temp /\ ~b.temp /\ a.key = b.key) => a = b ]_vars

DictOf(getter) ==
    CASE getter = "surface" -> surface_events
      [] getter = "path" -> path_events
      [] getter = "gridless" -> gridless_events

\* C4: for every non-empty chain, each event getter solves the photon for
\* chain[0] against the destination event it obtained for chain[1:], and
\* stores the result under chain.
C4_SolvedAgainstTail ==
    \A l \in solveLog :
        l.getter \in {"surface", "path", "gridless"}
        => /\ l.body = upper(l.key[1])
           /\ l.dest = l.obtained
           /\ Tup(l.key) \in DOMAIN DictOf(l.getter)

(***************************************************************************)
(* Registry claims                                                         *)
(***************************************************************************)
Called(op) == regOps' # regOps /\ regLast'.op = op

CalledPathId == nodes[regLast'.node].path_id

\* The registry that register works on: an empty one is re-initialised.
Effective(reg) ==
    IF DOMAIN reg = {} THEN initialize_registry([reg |-> reg]).reg ELSE reg

\* C5 as stated: Path.register on a node whose origin_id is not in the
\* registry fails with an error and adds no registry entry, whether or not a
\* shortcut name is given.
C5_UnknownOriginFailsAnyShortcut ==
    [][ (Called("register")
         /\ <<nodes[regLast'.node].origin_id>> \notin DOMAIN REGISTRY)
        => (regLast'.err # "none" /\ REGISTRY' = REGISTRY) ]_regVars

\* C5 amended: Path.register without a shortcut name, on a node whose
\* origin_id is not a key of the registry (an empty registry being first
\* re-initialised to the SSB entries), raises KeyError and binds no key to the
\* node: the registry is left as it was found (or as re-initialised).
C5_UnknownOriginFails ==
    [][ (Called("register") /\ regLast'.shortcut = NoShortcut
         /\ <<nodes[regLast'.node].origin_id>> \notin DOMAIN Effective(REGISTRY))
        => (regLast'.err = "KeyError" /\ REGISTRY' = Effective(REGISTRY)
            /\ nodes' = nodes /\ ancestry' = ancestry) ]_regVars

C5_Witness ==
    /\ regLast.op = "register" /\ regLast.shortcut = NoShortcut
    /\ regLast.err = "KeyError"
    /\ <<nodes[regLast.node].origin_id>> \notin DOMAIN REGISTRY
    /\ \A k \in DOMAIN REGISTRY : REGISTRY[k] # regLast.node

\* C6: Path.unregister on a path that has a primary registration completes
\* without error, and afterwards the registry contains neither the key
\* path_id nor any tuple key whose first or second component is path_id.
C6_UnregisterCompletes ==
    [][ (Called("unregister") /\ <<CalledPathId>> \in DOMAIN REGISTRY)
        => /\ regLast'.err = "none"
           /\ \A k \in DOMAIN REGISTRY' :
                 /\ k # <<CalledPathId>>
                 /\ Len(k) >= 2 => (k[1] # CalledPathId /\ k[2] # CalledPathId)
      ]_regVars

\* C7: Path.unregister(X) removes no registry entry other than X's primary
\* key and the tuple keys with X as first or second component; every other
\* key stays bound to the same path object, and no path object (in
\* particular no composite whose chain passes through X) is changed.
C7_UnregisterFrame ==
    [][ Called("unregister")
        => /\ \A k \in DOMAIN REGISTRY :
                 (/\ k # <<CalledPathId>>
                  /\ Len(k) >= 2 => (k[1] # CalledPathId /\ k[2] # CalledPathId))
                 => (k \in DOMAIN REGISTRY' /\ REGISTRY'[k] = REGISTRY[k])
           /\ nodes' = nodes
      ]_regVars

\* An unregister has just run on X while a Linked path between other end
\* points, with X inside its chain, is still registered.
C7_Witness ==
    /\ regLast.op = "unregister"
    /\ \E k \in DOMAIN REGISTRY :
          LET x == nodes[regLast.node].path_id
              c == nodes[REGISTRY[k]]
          IN  /\ Len(k) >= 2 /\ k[1] # x /\ k[2] # x
              /\ c.kind = "Linked"
              /\ \E i \in 1..Len(c.parts) : nodes[c.parts[i]].path_id = x

\* C8: re-registering a node under a name that already has a primary
\* definition replaces it: afterwards the name looks up the new node.
C8_ReregisterReplaces ==
    [][ (Called("reregister") /\ <<CalledPathId>> \in DOMAIN REGISTRY)
        => (/\ <<CalledPathId>> \in DOMAIN REGISTRY'
            /\ REGISTRY'[<<CalledPathId>>] = regLast'.node) ]_regVars

\* The names met when walking from a path to the root along its ancestry.
AncestryNames(n) == [i \in 1..Len(ancestry[n]) |-> nodes[ancestry[n][i]].path_id]

IsPrimary(k) == Len(k) = 1 /\ nodes[REGISTRY[k]].path_id = k[1]

\* C9: for every path with a primary registration, following origins reaches
\* SSB without visiting any name twice, and a registration that would place a
\* path's own name among its ancestors fails.
C9_NoCycle ==
    \A k \in DOMAIN REGISTRY :
        (IsPrimary(k) /\ ancestry[REGISTRY[k]] # <<>>)
        => LET names == AncestryNames(REGISTRY[k])
           IN  /\ names[Len(names)] = "SSB"
               /\ \A i, j \in 1..Len(names) : names[i] = names[j] => i = j

BareKeyAncestry(k) ==
    LET a == ancestry[REGISTRY[k]]
    IN  /\ a # <<>>
        /\ a[1] = REGISTRY[k]
        /\ \A i \in 1..(Len(a) - 1) :
              nodes[a[i]].origin_id = nodes[a[i + 1]].path_id
        /\ a[Len(a)] = SSB

\* C10 as stated: every registry entry keyed by a bare name is a path with an
\* ancestry list that starts at that path, links each element's origin_id to
\* the next element's path_id and ends at SSB, with or without shortcuts.
C10_AncestryAnyShortcut ==
    \A k \in DOMAIN REGISTRY : Len(k) = 1 => BareKeyAncestry(k)

\* C10 amended: the same, as long as no register call has given a shortcut
\* name.
C10_Ancestry ==
    ~regShortcutUsed =>
        \A k \in DOMAIN REGISTRY : Len(k) = 1 => BareKeyAncestry(k)

C10_Witness ==
    /\ ~regShortcutUsed
    /\ <<"B">> \in DOMAIN REGISTRY
    /\ Len(ancestry[REGISTRY[<<"B">>]]) = 3

(***************************************************************************)
(* Connector claims                                                        *)
(***************************************************************************)
\* The last operation was a call of Path.connect that returned a node.
Connected == connLast.op = "connect" /\ connLast.err = "none"

\* The step is a call of Path.connect that directly follows a successful
\* call with the same arguments.
SameArgs(a, b) ==
    a.target = b.target /\ a.origin = b.origin /\ a.frame = b.frame

Repeated ==
    /\ connLast.op = "connect" /\ connLast.err = "none"
    /\ regOps' = regOps + 1
    /\ connLast'.op = "connect"
    /\ SameArgs(connLast, connLast')

\* The same node as before, and no change of the registry.
SameAnswer ==
    /\ connLast'.err = "none"
    /\ connLast'.val = connLast.val
    /\ REGISTRY' = REGISTRY

\* The name is the path id of the node registered under it (and not a
\* shortcut name for a node of another id).
IsPathId(name) ==
    <<name>> \in DOMAIN REGISTRY /\ nodes[REGISTRY[<<name>>]].path_id = name

C12_ConnectIds ==
    Connected /\ IsPathId(connLast.target) /\ IsPathId(connLast.origin) =>
        /\ nodes[connLast.val].path_id = connLast.target
        /\ nodes[connLast.val].origin_id = connLast.origin
        /\ nodes[connLast.val].frame_id = connLast.frame

\* Path.connect has composed a Reversed node and rotated it.
C12_Witness ==
    /\ Connected /\ ~connLast.again
    /\ IsPathId(connLast.target) /\ IsPathId(connLast.origin)
    /\ nodes[connLast.val].kind = "Rotated"
    /\ nodes[nodes[connLast.val].parts[1]].kind = "Reversed"
    /\ connLast.val = Len(nodes)

\* The path ids along an ancestry list.
Ids(anc) == [i \in 1..Len(anc) |-> nodes[anc[i]].path_id]

IsPrefix(a, b) == Len(a) <= Len(b) /\ SubSeq(b, 1, Len(a)) = a

\* C13: Path.common_ancestry(p1, p2) returns prefixes of the two ancestry
\* lists that end at paths of the same id; that id is the first entry of
\* p1's ancestry that occurs anywhere in p2's ancestry; and no other common
\* id gives a shorter combined pair of prefixes.
C13_CommonAncestry ==
    connLast.op = "common_ancestry" /\ connLast.err = "none" =>
        LET a1 == ancestry[REGISTRY[<<connLast.target>>]]
            a2 == ancestry[REGISTRY[<<connLast.origin>>]]
            r1 == connLast.val[1]
            r2 == connLast.val[2]
        IN  /\ IsPrefix(r1, a1) /\ IsPrefix(r2, a2)
            /\ r1 # <<>> /\ r2 # <<>>
            /\ Ids(r1)[Len(r1)] = Ids(r2)[Len(r2)]
            /\ \A i \in 1..(Len(r1) - 1), j \in 1..Len(a2) :
                   Ids(a1)[i] # Ids(a2)[j]
            /\ \A i \in 1..Len(a1), j \in 1..Len(a2) :
                   Ids(a1)[i] = Ids(a2)[j] => Len(r1) + Len(r2) <= i + j

\* The ancestry lists of the primary definitions of two ids name no common
\* path.
Disjoint(t, o) ==
    /\ <<t>> \in DOMAIN REGISTRY /\ <<o>> \in DOMAIN REGISTRY
    /\ ancestry[REGISTRY[<<t>>]] # <<>> /\ ancestry[REGISTRY[<<o>>]] # <<>>
    /\ \A i \in DOMAIN ancestry[REGISTRY[<<t>>]],
          j \in DOMAIN ancestry[REGISTRY[<<o>>]] :
          Ids(ancestry[REGISTRY[<<t>>]])[i] # Ids(ancestry[REGISTRY[<<o>>]])[j]

Swapped ==
    /\ Connected
    /\ regOps' = regOps + 1
    /\ connLast'.op = "connect"
    /\ connLast'.target = connLast.origin
    /\ connLast'.origin = connLast.target
    /\ connLast'.frame = connLast.frame
    /\ IsPathId(connLast.target) /\ IsPathId(connLast.origin)

\* Two events are opposite: their positions and their velocities sum to
\* zero.
Opposite(e1, e2) ==
    /\ e1.err = "none" /\ e2.err = "none"
    /\ VAdd(e1.pos, e2.pos) = VZERO
    /\ VAdd(e1.vel, e2.vel) = VZERO

Solved ==
    /\ solveLast.op \in {"photon_to_event", "photon_from_event"}
    /\ solveLast.err = "none"

\* The light time returned: the time of the relative event.
LightTime == solveLast.relative_event.time

\* The distance, relative to SSB, between the event returned and the event
\* given.
Separation == norm(VSub(solveLast.ssb.pos, solveEvent.ssb.pos))

\* C16: after a solve with the default three iterations, in either
\* direction, the distance between the position of the target at
\* event.time + light time and the position of the event is c times the
\* absolute value of the light time.
C16_FixedPoint ==
    (Solved /\ solveLast.iters = 3) =>
        /\ solveLast.absolute_event.time = solveEvent.ev.time + LightTime
        /\ Separation = C * Abs(LightTime)

\* The speed of the target relative to the event, both taken relative to SSB.
RelativeSpeed == norm(VSub(solveLast.ssb.vel, solveEvent.ssb.vel))

\* C17: whenever the relative speed is below c, and for every number of
\* iterations, photon_to_event returns an event that is not later than the
\* given one (light time <= 0) and photon_from_event returns one that is
\* not earlier (light time >= 0).
C17_LightTimeSign ==
    (Solved /\ RelativeSpeed < C) =>
        /\ solveLast.op = "photon_to_event" =>
              /\ LightTime <= 0
              /\ solveLast.absolute_event.time <= solveEvent.ev.time
        /\ solveLast.op = "photon_from_event" =>
              /\ LightTime >= 0
              /\ solveLast.absolute_event.time >= solveEvent.ev.time

\* The position of the target of the last solve at the given time, relative
\* to SSB in J2000.
TargetAt(time) ==
    event_at_time(RegState,
                  REGISTRY[<<nodes[solveLast.path].path_id, "SSB", "J2000">>],
                  time).pos

\* C18: a solve makes exactly iters Newton updates of the light time,
\* whether or not an earlier one has converged, and returns the last value.
\* With iters = 0 it makes none and returns the initial estimate: the
\* distance between the target at event.time and the event, divided by
\* sign * c.
C18_ExactlyItersUpdates ==
    Solved =>
        /\ Len(solveLast.lts) = solveLast.iters + 1
        /\ LightTime = solveLast.lts[Len(solveLast.lts)]
        /\ solveLast.lts[1] * solveLast.sign * C
              = norm(VSub(TargetAt(solveEvent.ev.time), solveEvent.ssb.pos))
        /\ solveLast.absolute_event.time = solveEvent.ev.time + LightTime

\* A solve of three iterations whose first update had already converged.
C18_Witness ==
    /\ Solved
    /\ solveLast.iters = 3
    /\ Len(solveLast.lts) = 4
    /\ solveLast.lts[1] # solveLast.lts[2]
    /\ solveLast.lts[2] = solveLast.lts[3]
    /\ solveLast.lts[3] = solveLast.lts[4]

SolveCalled == solveLast.op \in {"photon_to_event", "photon_from_event"}

\* The attributes of an event that no solve may change.
Kinematics == {"time", "pos", "vel", "origin_id", "frame_id"}

\* The photon field a solve in the given direction fills, and the other one.
Filled(op) == IF op = "photon_to_event" THEN "arr" ELSE "dep"

Untouched(op) == IF op = "photon_to_event" THEN "dep" ELSE "arr"

\* C19: a solve changes the event it is given only in its arrival field
\* (photon_to_event) or its departure field (photon_from_event) and in the
\* same field of its SSB copy.  Time, position, velocity, origin, frame
\* and the other photon field of the event and of its SSB copy stay as
\* they were; the field filled on the event is the field of the SSB copy
\* in the frame of the event.
C19_OnlyFillsField ==
    SolveCalled =>
        /\ \A f \in Kinematics \cup {Untouched(solveLast.op)} :
              solveEvent.ev[f] = solveLast.before.ev[f]
        /\ solveLast.before.ssb # NoEvent =>
              \A f \in Kinematics \cup {Untouched(solveLast.op)} :
                 solveEvent.ssb[f] = solveLast.before.ssb[f]
        /\ (solveLast.before.ssb = NoEvent /\ solveEvent.ssb # NoEvent) =>
              solveEvent.ssb[Untouched(solveLast.op)] = Empty
        /\ Solved =>
              /\ solveEvent.ssb[Filled(solveLast.op)] # Empty
              /\ solveEvent.ev[Filled(solveLast.op)]
                    = wrt_frame(solveEvent.ssb, solveEvent.ev.frame_id)
                         [Filled(solveLast.op)]

\* A solve from an event, given in the frame F1, whose arrival field an
\* earlier solve has filled.
C19_Witness ==
    /\ Solved
    /\ solveLast.op = "photon_from_event"
    /\ solveEvent.ev.frame_id = "F1"
    /\ solveLast.before.ev.arr # Empty
    /\ solveLast.before.ev.dep = Empty
    /\ solveEvent.ev.dep # Empty
    /\ solveEvent.ev.arr = solveLast.before.ev.arr

\* The vector of length one along a vector that lies on an axis.
unit(v) == <<Sgn(v[1]), Sgn(v[2])>>

\* A photon_to_event solve against a target that is at rest relative to
\* SSB.  A is the position of the target and B that of the event.
StationaryTarget ==
    /\ Solved
    /\ solveLast.op = "photon_to_event"
    /\ solveLast.ssb.vel = VZERO

FromAToB == VSub(solveEvent.ssb.pos, solveLast.ssb.pos)

\* C20 as stated: after photon_to_event of an event at B against a
\* stationary target at A, the arrival vector of the event is the unit
\* vector from A to B.
C20_ArrivalIsUnitVector ==
    StationaryTarget =>
        /\ solveEvent.ssb.arr = unit(FromAToB)
        /\ solveEvent.ev.arr
              = wrt_frame(solveEvent.ssb, solveEvent.ev.frame_id).arr

\* C20: after photon_to_event of an event at B against a stationary target
\* at A, the arrival vector of the event is the vector from A to B itself:
\* it points along the unit vector from A to B and its length is the
\* distance from A to B, which is c times the light time.
C20_ArrivalIsDisplacement ==
    StationaryTarget =>
        /\ solveEvent.ssb.arr = FromAToB
        /\ unit(solveEvent.ssb.arr) = unit(FromAToB)
        /\ norm(solveEvent.ssb.arr) = C * Abs(LightTime)
        /\ solveEvent.ev.arr
              = wrt_frame(solveEvent.ssb, solveEvent.ev.frame_id).arr

\* The scenario of the claim, with the event given in the frame F1: the
\* arrival vector is filled and is longer than a unit vector.
C20_Witness ==
    /\ StationaryTarget
    /\ solveLast.iters = 3
    /\ solveEvent.ev.vel = VZERO
    /\ solveEvent.ev.frame_id = "F1"
    /\ solveLast.ssb.pos = VZERO
    /\ solveEvent.ssb.pos = <<Unit, 0>>
    /\ solveEvent.ssb.arr = <<Unit, 0>>
    /\ solveEvent.ev.arr = <<0, -Unit>>
    /\ LightTime * C = -Unit

\* The event of the target of the last solve at the given time, relative to
\* SSB in J2000.
TargetEventAt(time) ==
    event_at_time(RegState,
                  REGISTRY[<<nodes[solveLast.path].path_id, "SSB", "J2000">>],
                  time)

\* The speed at which dp grows when it changes at the rate dv: the signed
\* component of dv along dp.
OutwardSpeed(dv, dp) == Sgn(dp[1]) * dv[1] + Sgn(dp[2]) * dv[2]

\* The residual and the signed derivative at the k-th value of the light
\* time of the last solve.
Residual(k) ==
    norm(VSub(TargetEventAt(solveEvent.ev.time + solveLast.lts[k]).pos,
              solveEvent.ssb.pos))
       - solveLast.sign * C * solveLast.lts[k]

SignedDerivative(k) ==
    OutwardSpeed(
        VSub(TargetEventAt(solveEvent.ev.time + solveLast.lts[k]).vel,
             solveEvent.ssb.vel),
        VSub(TargetEventAt(solveEvent.ev.time + solveLast.lts[k]).pos,
             solveEvent.ssb.pos))
       - solveLast.sign * C

\* C27: each Newton update subtracts from the light time the residual
\* |delta position| - sign * c * light time divided by the derivative
\* (signed component of delta velocity along delta position) - sign * c,
\* so that an approaching target and a receding one contribute radial
\* speeds of opposite sign.
C27_SignedRadialSpeed ==
    Solved =>
        \A k \in 1..(Len(solveLast.lts) - 1) :
           (solveLast.lts[k] - solveLast.lts[k + 1]) * SignedDerivative(k)
              = Residual(k)

----------------------------------------------------------------------------
\* ReshapedCadence: translation of time steps between the shape of a cadence
\* and the shape it has been given.
\*
\* A time step is a Scalar, Pair or Vector of index values.  The fractional
\* part of each index value is kept as a numerator over FracDen, so that a
\* value is vals[i] + fracs[i] / FracDen; an integer time step has kind "int"
\* and no fractional part.

MaxRank == 3

MaxElems == 4

FracDen == 2

RECURSIVE product(_)
product(shape) ==
    IF shape = <<>> THEN 1 ELSE Head(shape) * product(Tail(shape))

Reverse(s) == [i \in 1..Len(s) |-> s[Len(s) + 1 - i]]

RECURSIVE cumproduct(_)
cumproduct(s) ==
    IF Len(s) <= 1 THEN s
    ELSE Bind(cumproduct(SubSeq(s, 1, Len(s) - 1)),
              LAMBDA c : Append(c, c[Len(c)] * s[Len(s)]))

\* np.cumproduct((shape + (1,))[::-1])[-2::-1]
Stride(shape) ==
    Bind(cumproduct(Reverse(Append(shape, 1))),
         LAMBDA c : [i \in 1..(Len(c) - 1) |-> c[Len(c) - i]])

Shapes ==
    {s \in UNION {[1..n -> 1..MaxElems] : n \in 1..MaxRank} :
        product(s) <= MaxElems}

\* The classes Scalar.as_scalar, for rank 1, and Vector.as_vector accept
\* unchanged: a Pair is a Vector.
ClassesOfRank(rank) ==
    IF rank = 1 THEN {"Scalar"} ELSE IF rank = 2 THEN {"Pair", "Vector"}
    ELSE {"Vector"}

Zeros(n) == [i \in 1..n |-> 0]

\* The index values lying inside a shape.
Indices(shape) ==
    {v \in [1..Len(shape) -> 0..(MaxElems - 1)] :
        \A i \in 1..Len(shape) : v[i] < shape[i]}

\* The time steps lying inside a shape: the integer ones and the floating
\* ones, whose index values may each have a fractional part.
Tsteps(shape) ==
    {[cls |-> c, kind |-> "int", vals |-> v, fracs |-> Zeros(Len(shape))] :
        c \in ClassesOfRank(Len(shape)), v \in Indices(shape)}
    \cup
    {[cls |-> c, kind |-> "float", vals |-> v, fracs |-> f] :
        c \in ClassesOfRank(Len(shape)), v \in Indices(shape),
        f \in [1..Len(shape) -> 0..(FracDen - 1)]}

is_float(tstep) == tstep.kind = "float"

as_int(tstep) ==
    [tstep EXCEPT !.kind = "int", !.fracs = Zeros(Len(tstep.vals))]

as_float(tstep) == [tstep EXCEPT !.kind = "float"]

RECURSIVE sum(_)
sum(s) == IF s = <<>> THEN 0 ELSE Head(s) + sum(Tail(s))

reshape_tstep(tstep, oldshape, oldstride, oldrank, newshape, newstride, newrank) ==
    LET is_floating == is_float(tstep)
        tstep_int == IF is_floating THEN as_int(tstep) ELSE tstep
        frac == IF is_floating
                THEN tstep.fracs[oldrank] - tstep_int.fracs[oldrank]
                ELSE 0
        offset == IF oldrank = 1 THEN tstep_int.vals[1]
                  ELSE sum([i \in 1..oldrank |->
                               oldstride[i] * tstep_int.vals[i]])
        indices == [i \in 1..newrank |->
                       (offset \div newstride[i]) % newshape[i]]
    IN  IF newrank = 1
        THEN [cls |-> "Scalar", kind |-> tstep.kind,
              vals |-> <<offset>>, fracs |-> <<frac>>]
        ELSE Bind([cls |-> IF newrank = 2 THEN "Pair" ELSE "Vector",
                   kind |-> "int", vals |-> indices,
                   fracs |-> Zeros(newrank)],
                  LAMBDA returned_tstep :
                      IF is_floating
                      THEN [as_float(returned_tstep)
                               EXCEPT !.fracs[newrank] = @ + frac]
                      ELSE returned_tstep)

\* The there-and-back test of _reshape_tstep, for every pair of shapes with
\* the same number of elements and every time step inside the old one.
TEST ==
    UNION {{[oldshape |-> o, newshape |-> n, arg |-> a] : a \in Tsteps(o)} :
              <<o, n>> \in {p \in Shapes \X Shapes :
                               product(p[1]) = product(p[2])}}

ReshapeInit ==
    /\ RegInit /\ BpInit /\ connLast = NoConnect /\ SolveIdle /\ MasksIdle
    /\ reshapeTest \in TEST
    /\ arg1 = NoTstep
    /\ arg2 = NoTstep

new_tstep_from_old ==
    /\ arg1 = NoTstep
    /\ arg1' = reshape_tstep(reshapeTest.arg,
                   reshapeTest.oldshape, Stride(reshapeTest.oldshape),
                   Len(reshapeTest.oldshape),
                   reshapeTest.newshape, Stride(reshapeTest.newshape),
                   Len(reshapeTest.newshape))
    /\ UNCHANGED <<regVars, bpVars, connVars, solveVars, reshapeTest, arg2,
                   sampleMasks>>

old_tstep_from_new ==
    /\ arg1 # NoTstep
    /\ arg2 = NoTstep
    /\ arg2' = reshape_tstep(arg1,
                   reshapeTest.newshape, Stride(reshapeTest.newshape),
                   Len(reshapeTest.newshape),
                   reshapeTest.oldshape, Stride(reshapeTest.oldshape),
                   Len(reshapeTest.oldshape))
    /\ UNCHANGED <<regVars, bpVars, connVars, solveVars, reshapeTest, arg1,
                   sampleMasks>>

ReshapeNext == new_tstep_from_old \/ old_tstep_from_new

SpecReshape == ReshapeInit /\ [][ReshapeNext]_vars

\* Equality of two time steps as Python compares them: by value.
SameValue(a, b) == a.vals = b.vals /\ a.fracs = b.fracs

ThereAndBack == arg2 # NoTstep

\* C26: for shapes with the same number of elements and any integer or
\* fractional time step inside the old shape, converting to the new shape and
\* back returns the original time step, of the same class and of the same
\* integer/float kind.
C26_RoundTrip ==
    ThereAndBack =>
        /\ SameValue(reshapeTest.arg, arg2)
        /\ reshapeTest.arg.cls = arg2.cls
        /\ reshapeTest.arg.kind = arg2.kind

WithArr == {"get_surface_event_with_arr", "get_gridless_event_with_arr"}

Returned(last) == last.op \in WithArr /\ last.err = "none"

\* C22: when get_surface_event_with_arr or get_gridless_event_with_arr
\* returns, the arrival field of the event it returns is filled; and a call
\* that follows a call of the same method that returned for the same key
\* performs no photon solve.
C22_ArrivalFilledOnce ==
    [][Returned(bpLast') =>
          /\ bpLast'.val \in arrFilled'
          /\ (Returned(bpLast) /\ bpLast.op = bpLast'.op
                               /\ bpLast.key = bpLast'.key)
                => solveLog' = solveLog]_vars

----------------------------------------------------------------------------
\* Validity masks.  The observation has NSamples samples.  A mask is held
\* either as an array with one boolean per sample or, when every sample has
\* the same value, possibly as a single boolean; set is the set of samples
\* where it is True.

NSamples == 2

Samples == 1..NSamples

SurfaceIds == {"A", "R"}

Held(set) ==
    [single |-> sampleMasks.single /\ set \in {{}, Samples}, set |-> set]

logical_not(m) == [m EXCEPT !.set = Samples \ @]

logical_and(a, b) ==
    [single |-> a.single /\ b.single, set |-> a.set \cap b.set]

logical_or(a, b) ==
    [single |-> a.single /\ b.single, set |-> a.set \cup b.set]

\* The mask of the event of a chain: a sample is invalid when it is invalid
\* in the observer event or when its line of sight misses a body of the
\* chain.
RECURSIVE event_mask(_)
event_mask(chain) ==
    IF chain = <<>> THEN sampleMasks.obs
    ELSE sampleMasks.miss[upper(Head(chain))] \cup event_mask(Tail(chain))

\* A Scalar of booleans without a mask, and a Scalar of numbers.
BooleanScalar(true) == [kind |-> "bool", vals |-> true, mask |-> {}]

NumberScalar(vals, mask) == [kind |-> "float", vals |-> vals, mask |-> mask]

(***************************************************************************)
(* Backplane.mask_as_scalar                                                *)
(***************************************************************************)
mask_as_scalar(mask) ==
    IF ~mask.single THEN BooleanScalar(mask.set)
    ELSE IF mask.set = Samples THEN BooleanScalar(Samples)
    ELSE BooleanScalar({})

\* A variant of the mask of where_in_front that leaves out whether the front
\* surface is unmasked.
where_in_front_back_only(front, back, front_vals, back_vals) ==
    mask_as_scalar(logical_or(Held(event_mask(back)),
        [single |-> FALSE,
         set |-> {s \in Samples : front_vals[s] < back_vals[s]}]))

\* The mask of where_in_front, lines 1907-1912: a surface is in front if it
\* is unmasked and the second surface is either masked or further away.
where_in_front_mask(front, back, front_vals, back_vals) ==
    LET front_unmasked == logical_not(Held(event_mask(front)))
        back_masked == Held(event_mask(back))
    IN  mask_as_scalar(logical_and(front_unmasked,
            logical_or(back_masked,
                [single |-> FALSE,
                 set |-> {s \in Samples : front_vals[s] < back_vals[s]}])))

\* What the array stored under a key holds, sample by sample.
RECURSIVE Contents(_)
Contents(key) ==
    LET func == key[1].v[1]
        chain == key[2].v
    IN  CASE func \in {"light_time", "distance"} ->
                NumberScalar(sampleMasks.vals[upper(Head(chain))],
                             event_mask(chain))
          [] func = "where_intercepted" ->
                mask_as_scalar(logical_not(Held(event_mask(chain))))
          [] func = "where_in_front" ->
                where_in_front_mask(chain, key[3].v,
                    Contents(<<Str("distance"), key[2], Str("dep")>>).vals,
                    Contents(<<Str("distance"), Tup(key[3].v),
                               Str("dep")>>).vals)

\* The masks an observation can have; a body is near or far, at the same
\* distance in every sample.
MaxDistance == 2

SampleMasks ==
    [single : BOOLEAN, obs : SUBSET Samples,
     miss : [SurfaceIds -> SUBSET Samples],
     vals : [SurfaceIds -> {[s \in Samples |-> d] : d \in 1..MaxDistance}]]

MaskKeys == {Tup(<<"a">>), Tup(<<"r">>), Tup(<<"a", "r">>)}

BackBodies == {Tup(<<"a">>), Str("r")}

MaskInit ==
    /\ RegInit /\ BpInit /\ connLast = NoConnect /\ SolveIdle /\ ReshapeIdle
    /\ sampleMasks \in SampleMasks

Distance(k) ==
    /\ bpOps < MaxMaskOps
    /\ \E r \in {distance(BpState, k, "dep")} : BpSet(r, "distance", k)

WhereIntercepted(k) ==
    /\ bpOps < MaxMaskOps
    /\ \E r \in {where_intercepted(BpState, k)} :
          BpSet(r, "where_intercepted", k)

WhereInFront(k, b) ==
    /\ bpOps < MaxMaskOps
    /\ \E r \in {where_in_front(BpState, k, b)} :
          BpSet(r, "where_in_front", k)

MaskNext ==
    \/ \E k \in MaskKeys : Distance(k)
    \/ \E k \in MaskKeys : WhereIntercepted(k)
    \/ \E k \in MaskKeys, b \in BackBodies : WhereInFront(k, b)

SpecMask == MaskInit /\ [][MaskNext]_vars

\* A quantity marks a sample invalid through its mask or, when it is a
\* boolean, by being False there.
MarksInvalid(b, s) == s \in b.mask \/ (b.kind = "bool" /\ s \notin b.vals)

MaskedQuantities ==
    {key \in DOMAIN backplanes :
        key[1].v[1] \in {"light_time", "distance", "where_intercepted",
                         "where_in_front"}}

IsInFront(key) == key[1].v[1] = "where_in_front"

\* The chains a quantity is computed from.
ChainsOf(key) ==
    IF IsInFront(key) THEN {key[2].v, key[3].v} ELSE {key[2].v}

----------------------------------------------------------------------------
\* Quantity methods called with option values, supported and unsupported.

\* The option values each method documents, by position after the event key.
SupportedOptions ==
    [sub_longitude |-> <<{"obs", "sun"}, {"east", "west"}>>,
     ansa_radius   |-> <<{"right", "left", "positive"}>>,
     distance      |-> <<{"dep", "arr"}>>,
     light_time    |-> <<{"dep", "arr"}>>]

OptionKeys ==
    {Tup(<<Str("sub_longitude"), Tup(<<"a">>), Str(ref), Str(dir)>>) :
        ref \in {"obs", "sun", "iau"}, dir \in {"east", "west", "north"}}
    \cup
    {Tup(<<Str("ansa_radius"), Tup(<<"r">>), Str(t)>>) :
        t \in {"right", "left", "positive", "outer"}}
    \cup
    {Tup(<<Str(f), Tup(<<"a">>), Str(dir)>>) :
        f \in {"distance", "light_time"}, dir \in {"dep", "arr", "both"}}

OptionNext == \E bk \in OptionKeys : Evaluate(bk)

SpecOptions == Init /\ [][OptionNext]_vars

\* The call gave a value that the method does not document for that option.
Unsupported(bk) ==
    LET options == Tail(Tail(bk.v))
    IN  \E i \in 1..Len(options) :
            options[i].v[1] \notin SupportedOptions[bk.v[1].v[1]][i]

\* C23: a call of a quantity method that supplies an unsupported option value
\* raises an error and returns no value.
C23_UnsupportedOptionRaises ==
    (bpLast.op = "evaluate" /\ Unsupported(bpLast.key)) => bpLast.err # "none"

----------------------------------------------------------------------------
\* Event keys that differ in the letter case of their body names.

CaseKeys ==
    {Tup(<<"a">>), Tup(<<"A">>), Tup(<<"a", "r">>), Tup(<<"A", "r">>),
     Tup(<<"a", "R">>), Str("a"), Str("A")}

CaseNext ==
    \/ \E k \in CaseKeys : GetSurfaceEvent(k)
    \/ \E k \in CaseKeys : GetPathEvent(k)
    \/ \E k \in CaseKeys : GetGridlessEvent(k)

SpecCase == Init /\ [][CaseNext]_vars

\* Two chains name the same bodies in a different letter case.
DifferInCase(c1, c2) ==
    /\ c1 # c2
    /\ Len(c1) = Len(c2)
    /\ \A i \in 1..Len(c1) : upper(c1[i]) = upper(c2[i])

OneEventForBothCases(events) ==
    \A k1, k2 \in DOMAIN events :
        DifferInCase(k1.v, k2.v) => events[k1] = events[k2]

\* C24: event keys that differ only in the letter case of body names denote
\* the same event: each dictionary holds the same event object under both,
\* and the photon solver has run once for the two of them.
C24_CaseInsensitiveKeys ==
    /\ OneEventForBothCases(surface_events)
    /\ OneEventForBothCases(path_events)
    /\ OneEventForBothCases(gridless_events)
    /\ \A l1, l2 \in solveLog :
          l1.getter = l2.getter => ~DifferInCase(l1.key, l2.key)

----------------------------------------------------------------------------
\* The function name of a backplane key.
FuncOf(bk) == IF bk.tag = "str" THEN bk.v[1] ELSE bk.v[1].v[1]

Caches ==
    <<surface_events, surface_events_w_derivs, path_events, gridless_events,
      backplanes>>

\* C25: evaluate of a key whose first element is not in CALLABLES raises
\* ValueError, and it invokes no method: no dictionary changes, no photon is
\* solved, no event's arrival field is filled and no array is made.
C25_OnlyCallablesInvoked ==
    [][(bpLast'.op = "evaluate" /\ FuncOf(bpLast'.key) \notin CALLABLES) =>
          /\ bpLast'.err = "ValueError"
          /\ UNCHANGED <<Caches, solveLog, arrFilled, arrays>>]_vars

C25_Witness ==
    /\ bpLast.op = "evaluate"
    /\ FuncOf(bpLast.key) \notin CALLABLES
    /\ bpLast.err = "ValueError"
    /\ backplanes # <<>>

----------------------------------------------------------------------------
\* The value ansa_radius is to return for each radius type, for the signed
\* radius r of the intercept.
SignedRadius(radius_type) ==
    CASE radius_type = "right" -> <<"r">>
      [] radius_type = "left" -> negated(<<"r">>)
      [] radius_type = "positive" -> absolute(<<"r">>)

\* C28: whatever calls of ansa_radius and ansa_altitude came before on the
\* same event key, ansa_radius(key, t) returns without error, for t = right,
\* left and positive, the arrays r, -r and |r| of the same signed radius r.
C28_AnsaRadiusAnyOrder ==
    (bpLast.op = "evaluate" /\ FuncOf(bpLast.key) = "ansa_radius") =>
        /\ bpLast.err = "none"
        /\ bpLast.val.val = SignedRadius(bpLast.key.v[3].v[1])

----------------------------------------------------------------------------
\* The proper suffixes of a chain, the empty chain among them.
Suffixes(chain) == {SubSeq(chain, i, Len(chain)) : i \in 2..(Len(chain) + 1)}

Cached(events, chain) == Tup(chain) \in DOMAIN events

\* C29: the empty chain maps to the observer event; every proper suffix of a
\* chain cached in surface_events or path_events is cached in one of the
\* two, and every proper suffix of a chain cached in gridless_events is
\* cached in gridless_events.  It holds in every state, also after a request
\* that raised.
C29_SuffixesCached ==
    /\ surface_events[Tup(<<>>)] = plain(obs_event)
    /\ surface_events_w_derivs[Tup(<<>>)] = obs_event
    /\ gridless_events[Tup(<<>>)] = obs_gridless_event
    /\ \A k \in DOMAIN surface_events \cup DOMAIN path_events :
          \A chain \in Suffixes(k.v) :
              Cached(surface_events, chain) \/ Cached(path_events, chain)
    /\ \A k \in DOMAIN gridless_events :
          \A chain \in Suffixes(k.v) : Cached(gridless_events, chain)

C29_Witness ==
    /\ bpLast.err = "none"
    /\ Cached(gridless_events, <<"a", "r">>)
    /\ \E k \in DOMAIN path_events : Len(k.v) = 3

----------------------------------------------------------------------------
\* Backplanes requested by key, for chains of one and of two bodies.
StoredKeys ==
    {Tup(<<Str(f), k>>) :
        f \in {"distance", "finest_resolution", "incidence_angle",
               "where_intercepted", "where_sunward"},
        k \in {Tup(<<"a">>), Tup(<<"a", "r">>)}}
    \cup
    {Tup(<<Str("where_in_front"), Tup(<<"a">>), Str("r")>>),
     Tup(<<Str("ansa_radius"), Tup(<<"r">>), Str("left")>>),
     Tup(<<Str("where_sunward"), Str("a")>>)}

StoredNext == \E bk \in StoredKeys : Evaluate(bk)

SpecStored == Init /\ [][StoredNext]_vars

\* C30: a backplane stored under a key whose first element is in CALLABLES
\* has that key as its key attribute, and evaluate of that key returns the
\* stored backplane itself, also when the event chain has several bodies.
C30_EvaluateStoredKey ==
    \A key \in DOMAIN backplanes :
        key[1].v[1] \in CALLABLES =>
            /\ backplanes[key].key = key
            /\ evaluate(BpState, Tup(key)).err = "none"
            /\ evaluate(BpState, Tup(key)).val = backplanes[key]

============================================================================
